---- MODULE Spec2Model ----
(***************************************************************************)
(* Control-plane client of the gateway (package sdnsdk): the relay         *)
(* specification parser, the relay controller (DirectRelayConnections,     *)
(* manageAutoRelays, FindNewRelay, FindFastestRelays) working on the       *)
(* shared IgnoredRelays map, and the cache-backed directory fetcher.       *)
(*                                                                         *)
(* Strings are modelled by their structure: a relay specification is the   *)
(* sequence of its comma-separated tokens, a token is its leading          *)
(* whitespace, the parts separated by ':' and its trailing whitespace.     *)
(* Latencies are integers (milliseconds).  RelayInfo.TimeAdded is written  *)
(* but never read by the package and is left out.                          *)
(***************************************************************************)
EXTENDS Integers, Sequences, FiniteSets, TLC

\* ------------------------------------------------------------------ bounds
MaxTokens == 2
MaxLimit == 2
MaxCalls == 2
MaxLen == 2

\* --------------------------------------------------------------- constants
PingTimeout == 2000
latencyThreshold == 10
defaultRelayPort == 1809

Connect == "Connect"
Switch == "Switch"

\* ------------------------------------------------------- hosts and lookups
IPs == {"1.1.1.1", "2.2.2.2", "3.3.3.3"}

\* A records of the DNS names the model knows; any other name has none.
LookupHost(host) ==
    IF host = "relay.example" THEN <<"1.1.1.1">> ELSE <<>>

\* GetIP: a literal IP is returned as it is, a name is replaced by its
\* first A record, anything else is an error.
GetIP(host) ==
    IF host \in IPs
    THEN [ip |-> host, err |-> FALSE]
    ELSE IF Len(LookupHost(host)) = 0
         THEN [ip |-> "", err |-> TRUE]
         ELSE [ip |-> LookupHost(host)[1], err |-> FALSE]

\* a conversion that takes every string for a number
AtoiLenient(s) == [n |-> 0, err |-> FALSE]

\* strconv.Atoi on the port strings of the model.
Atoi(s) ==
    IF s = "34" THEN [n |-> 34, err |-> FALSE]
    ELSE IF s = "1809" THEN [n |-> 1809, err |-> FALSE]
    ELSE [n |-> 0, err |-> TRUE]

\* ------------------------------------------------ relay specification text
\* strings.Trim(s, " ") removes spaces only: a tab stays.
TrimPad(pad) == IF pad = " " THEN "" ELSE pad

\* the token after strings.Trim(relay, " "): the surviving whitespace is
\* glued to the first and to the last part.
Trimmed(tok) ==
    [lead |-> TrimPad(tok.lead), parts |-> tok.parts, trail |-> TrimPad(tok.trail)]

IsAutoText(t) == t.lead = "" /\ t.trail = "" /\ t.parts = <<"auto">>
IsEmptyText(t) == t.lead = "" /\ t.trail = "" /\ t.parts = <<"">>

\* the host and port substrings of a trimmed token; "?" stands for a
\* string that carries whitespace and is therefore neither an IP, a known
\* name nor a number.
HostText(t) ==
    IF t.lead # "" \/ (Len(t.parts) = 1 /\ t.trail # "") THEN "?" ELSE t.parts[1]
PortText(t) ==
    IF t.trail # "" THEN "?" ELSE t.parts[2]

\* len(relayHosts) == 0: the one token of the empty string is empty and
\* has no whitespace around it.
IsEmptyString(relayHosts) ==
    /\ Len(relayHosts) = 1
    /\ relayHosts[1] = [lead |-> "", parts |-> <<"">>, trail |-> ""]

EmptyRelayMap == [ip \in {} |-> 0]

ParseError(msg) == [relays |-> EmptyRelayMap, autoCount |-> 0, err |-> msg]

\* a limit test that forgets the auto relays
LimitReachedStaticOnly(overrideRelays, autoCount, relayLimit) ==
    Cardinality(DOMAIN overrideRelays) = relayLimit

\* the test that ends the loop: unique relays plus auto relays
LimitReached(overrideRelays, autoCount, relayLimit) ==
    Cardinality(DOMAIN overrideRelays) + autoCount = relayLimit

\* an insertion where the last token of an IP wins
InsertOverwrite(overrideRelays, ip, port) ==
    [k \in DOMAIN overrideRelays \cup {ip} |-> IF k = ip THEN port ELSE overrideRelays[k]]

\* if _, ok := overrideRelays[ip]; !ok { overrideRelays[ip] = port }
InsertIfAbsent(overrideRelays, ip, port) ==
    IF ip \in DOMAIN overrideRelays
    THEN overrideRelays
    ELSE [k \in DOMAIN overrideRelays \cup {ip} |->
            IF k = ip THEN port ELSE overrideRelays[k]]

\* the body of the loop of parsedCmdlineRelays from token i on
RECURSIVE ParseFrom(_, _, _, _, _)
ParseFrom(relayHosts, relayLimit, i, overrideRelays, autoCount) ==
    IF i > Len(relayHosts)
    THEN [relays |-> overrideRelays, autoCount |-> autoCount, err |-> ""]
    ELSE IF LimitReached(overrideRelays, autoCount, relayLimit)
    THEN [relays |-> overrideRelays, autoCount |-> autoCount, err |-> ""]
    ELSE LET t == Trimmed(relayHosts[i]) IN
         IF IsAutoText(t)
         THEN ParseFrom(relayHosts, relayLimit, i + 1, overrideRelays, autoCount + 1)
         ELSE IF IsEmptyText(t)
         THEN ParseError("empty or extra comma")
         ELSE IF Len(t.parts) > 2
         THEN ParseError("incorrect format")
         ELSE LET p == IF Len(t.parts) = 2
                       THEN Atoi(PortText(t))
                       ELSE [n |-> defaultRelayPort, err |-> FALSE]
                  r == GetIP(HostText(t))
              IN IF p.err
                 THEN ParseError("port not valid")
                 ELSE IF r.err
                 THEN ParseError("host not valid")
                 ELSE ParseFrom(relayHosts, relayLimit, i + 1,
                                InsertIfAbsent(overrideRelays, r.ip, p.n), autoCount)

parsedCmdlineRelays(relayHosts, relayLimit) ==
    IF IsEmptyString(relayHosts)
    THEN ParseError("no arguments")
    ELSE ParseFrom(relayHosts, relayLimit, 1, EmptyRelayMap, 0)

\* ----------------------------------------------------- specification texts
LeadPads == {"", " "}
Pads == {"", " ", "\t"}

PartsChoices ==
    { <<"auto">>, <<"">>, <<"1.1.1.1">>, <<"2.2.2.2">>, <<"relay.example">>,
      <<"nohost">>, <<"1.1.1.1", "34">>, <<"2.2.2.2", "abc">>, <<"3.3.3.3", "">>,
      <<"1", "2", "3">> }

Tokens == [lead : LeadPads, parts : PartsChoices, trail : Pads]

SeqsUpTo(S, n) == UNION { [1..k -> S] : k \in 1..n }

RelayTexts == SeqsUpTo(Tokens, MaxTokens)

Limits == 0..MaxLimit

\* a token written without whitespace
Tok(parts) == [lead |-> "", parts |-> parts, trail |-> ""]

\* specifications of three tokens that name an IP more than once
DuplicateTexts ==
    { <<Tok(<<"1.1.1.1">>), Tok(<<"1.1.1.1", "34">>), Tok(<<"auto">>)>>,
      <<Tok(<<"1.1.1.1", "34">>), Tok(<<"relay.example">>), Tok(<<"2.2.2.2">>)>>,
      <<Tok(<<"auto">>), Tok(<<"2.2.2.2">>), Tok(<<"2.2.2.2", "34">>)>> }

\* the specifications the controller is started with
DRCTexts ==
    { <<Tok(<<"auto">>), Tok(<<"auto">>)>>,
      <<Tok(<<"1.1.1.1", "34">>), Tok(<<"auto">>)>>,
      <<Tok(<<"2.2.2.2">>), Tok(<<"1.1.1.1">>)>>,
      <<Tok(<<"nohost">>)>> }

\* ------------------------------------------------- directory and prober
Peer(host) == [ip |-> host, port |-> defaultRelayPort]

\* the potential-relays lists the directory answers with
RelayLists ==
    { <<>>,
      <<Peer("1.1.1.1"), Peer("2.2.2.2"), Peer("3.3.3.3"), Peer("relay.example"),
        Peer("nohost")>>,
      <<Peer("2.2.2.2")>> }

\* what one round of probes can measure: host -> round-trip time; a host
\* that does not answer is left out.
Measurements ==
    { [h \in {"1.1.1.1", "2.2.2.2", "3.3.3.3", "relay.example"} |->
         CASE h = "1.1.1.1" -> 3 [] h = "2.2.2.2" -> 13 [] h = "3.3.3.3" -> 20
           [] OTHER -> 3],
      [h \in {"1.1.1.1", "2.2.2.2", "3.3.3.3", "relay.example"} |->
         CASE h = "1.1.1.1" -> 20 [] h = "2.2.2.2" -> 13 [] h = "3.3.3.3" -> 3
           [] OTHER -> 13] }

IsSortedByLatency(q) == \A i \in 1..(Len(q) - 1) : q[i].Latency <= q[i + 1].Latency

IndexOrders(n) ==
    { f \in [1..n -> 1..n] : \A i, j \in 1..n : i # j => f[i] # f[j] }

\* the entry of one peer: PingTimeout unless the probe measured a
\* positive time
PingResult(peer, measured) ==
    [IP |-> peer.ip, Port |-> peer.port,
     Latency |-> IF peer.ip \in DOMAIN measured /\ measured[peer.ip] > 0
                 THEN measured[peer.ip]
                 ELSE PingTimeout]

\* getPingLatencies: one entry per peer, in an order sort.Slice can produce
\* (entries of equal latency in any order).
getPingLatencies(peers, measured) ==
    { q \in { [i \in 1..Len(peers) |-> PingResult(peers[perm[i]], measured)] :
                perm \in IndexOrders(Len(peers)) } :
        IsSortedByLatency(q) }

\* getRelays followed by getPingLatencies: the peer lists with the probe
\* results a task can get for them
ProbedLists ==
    UNION { { [relays |-> l, pings |-> q] : q \in getPingLatencies(l, measured) } :
            l \in RelayLists \ {<<>>}, measured \in Measurements }

\* ------------------------------------------------------ IgnoredRelays map
RelayInfo(port, isConnected, isStatic) ==
    [Port |-> port, IsConnected |-> isConnected, IsStatic |-> isStatic, Latency |-> 0]

\* a Store that is lost
StoreDropped(m, key, value) == m

Store(m, key, value) ==
    [k \in DOMAIN m \cup {key} |-> IF k = key THEN value ELSE m[k]]

\* an insertion that does not look for the key
LoadOrStoreBlind(m, key, value) == [map |-> Store(m, key, value), loaded |-> FALSE]

\* a LoadOrStore that takes an entry that is not connected for a missing one
LoadOrStoreIfConnected(m, key, value) ==
    IF key \in DOMAIN m /\ m[key].IsConnected
    THEN [map |-> m, loaded |-> TRUE]
    ELSE [map |-> Store(m, key, value), loaded |-> FALSE]

\* LoadOrStore: the map after the call and whether the key was present
LoadOrStore(m, key, value) ==
    IF key \in DOMAIN m
    THEN [map |-> m, loaded |-> TRUE]
    ELSE [map |-> Store(m, key, value), loaded |-> FALSE]

EmptyIgnored == [k \in {} |-> RelayInfo(0, FALSE, FALSE)]

RelayInstruction(ip, port, type, isStatic, relaysToSwitch) ==
    [IP |-> ip, Port |-> port, Type |-> type, IsStatic |-> isStatic,
     RelaysToSwitch |-> relaysToSwitch]

\* ------------------------------------------------------ cache-backed fetcher
nodeModelCacheFileName == "nodemodel.json"
blockchainNetworkCacheFileName == "blockchainNetwork.json"
accountModelsFileName == "accountmodel.json"

blockchainNetworksCacheFileName == "blockchainNetworks.json"

CacheFiles ==
    {nodeModelCacheFileName, blockchainNetworkCacheFileName, accountModelsFileName,
     blockchainNetworksCacheFileName}

ErrSDNUnavailable == "SDN service unavailable"

\* response bodies and file contents: byte strings over two bytes
Alphabet == {"{", "}"}
Bodies == UNION { [1..n -> Alphabet] : n \in 0..MaxLen }

\* a nil byte slice
nil == <<>>

\* a cache file that does not exist
NoFile == [exists |-> FALSE, bytes |-> <<>>]

\* what the directory can answer: no answer (a transport error), 503,
\* another status, or 200 with a body
Responses ==
    {[transportErr |-> TRUE, status |-> 0, body |-> <<>>]}
        \cup { [transportErr |-> FALSE, status |-> st, body |-> <<>>] : st \in {503, 500} }
        \cup { [transportErr |-> FALSE, status |-> 200, body |-> b] : b \in Bodies }

\* os.OpenFile(O_CREATE|O_WRONLY) and a write at offset 0: the bytes of
\* the old content past the length of value stay in the file.  The data
\* directory is writable: the open and the write succeed.
UpdateCacheFile(file, value) ==
    [exists |-> TRUE,
     bytes |-> value \o SubSeq(file.bytes, Len(value) + 1, Len(file.bytes))]

\* a read that takes a missing file for an empty one
LoadCacheFileLenient(file) == [data |-> file.bytes, err |-> ""]

LoadCacheFile(file) ==
    IF file.exists
    THEN [data |-> file.bytes, err |-> ""]
    ELSE [data |-> nil, err |-> "no such file"]

\* a request that reports 503 like any other status
httpNoSentinel(resp) ==
    IF resp.transportErr
    THEN [data |-> nil, err |-> "transport error"]
    ELSE IF resp.status # 200
    THEN [data |-> nil, err |-> "status error"]
    ELSE [data |-> resp.body, err |-> ""]

\* http: one request, GET or POST
http(resp) ==
    IF resp.transportErr
    THEN [data |-> nil, err |-> "transport error"]
    ELSE IF resp.status # 200
    THEN IF resp.status = 503
         THEN [data |-> nil, err |-> ErrSDNUnavailable]
         ELSE [data |-> nil, err |-> "status error"]
    ELSE [data |-> resp.body, err |-> ""]

\* a fetcher that turns to the cache file on any error of the request
httpWithCacheOnAnyError(resp, file) ==
    LET r == http(resp) IN
    IF r.err # ""
    THEN LET c == LoadCacheFile(file) IN
         IF c.err # ""
         THEN [data |-> nil, err |-> "can't load cache file", file |-> file]
         ELSE [data |-> c.data, err |-> "", file |-> file]
    ELSE [data |-> r.data, err |-> "", file |-> UpdateCacheFile(file, r.data)]

\* httpWithCache on the answer resp, with the cache file as it is on disk:
\* the bytes returned, the error, and the cache file afterwards
httpWithCache(resp, file) ==
    LET r == http(resp) IN
    IF r.err # ""
    THEN IF r.err = ErrSDNUnavailable
         THEN LET c == LoadCacheFile(file) IN
              IF c.err # ""
              THEN [data |-> nil, err |-> "can't load cache file", file |-> file]
              ELSE [data |-> c.data, err |-> "", file |-> file]
         ELSE [data |-> nil, err |-> r.err, file |-> file]
    ELSE [data |-> r.data, err |-> "", file |-> UpdateCacheFile(file, r.data)]

\* json.Unmarshal into a struct: of the byte strings here only "{}" is a
\* JSON object
Unmarshal(data) == IF data = <<"{", "}">> THEN "" ELSE "could not deserialize"

\* what the certificate store does during Register: nothing wrong, CreateCSR
\* or GetNodeID fails (before the request), GetAccountID fails (after it)
CertOutcomes == {"ok", "before", "after"}

\* the cached operations of the directory session
RegisterOp == [name |-> "Register", method |-> "POST", key |-> nodeModelCacheFileName]
FetchBlockchainNetworkOp ==
    [name |-> "FetchBlockchainNetwork", method |-> "GET",
     key |-> blockchainNetworkCacheFileName]
getAccountModelOp ==
    [name |-> "getAccountModel", method |-> "GET", key |-> accountModelsFileName]

\* the error an operation returns, given what httpWithCache returned
OpResult(r) == IF r.err # "" THEN r.err ELSE Unmarshal(r.data)

NoFetch ==
    [name |-> "none", method |-> "", key |-> "", resp |-> [transportErr |-> FALSE, status |-> 0, body |-> <<>>],
     data |-> nil, err |-> "", result |-> ""]

IdleGateway == [pc |-> "idle", err |-> ""]

\* ------------------------------------------------------ directory values
\* A body of the directory, and the content of a cache file, is a sequence
\* of blocks of bytes.  A block that is a whole JSON document has kind
\* "object"; one whose fields do not all fit the Go type has kind "type";
\* anything else has kind "syntax".  json.Unmarshal takes a body of exactly
\* one block that is a document: an empty body, and text after the
\* document, are syntax errors.
IsDocument(data) == Len(data) = 1 /\ data[1].kind \in {"object", "type"}

\* what the directory can answer with the bodies given, a body with any
\* status
DirectoryResponses(bodies) ==
    {[transportErr |-> TRUE, status |-> 0, body |-> <<>>]}
        \cup { [transportErr |-> FALSE, status |-> st, body |-> b] :
                 st \in {200, 500, 503}, b \in bodies }

\* message.Account, as far as the session looks into it: the two quota
\* limits, unsigned
Account(relay, nodes) == [RelayLimit |-> relay, MaxAllowedNodes |-> nodes]

\* message.Account{}
EmptyAccount == Account(0, 0)

\* the session before any account was loaded
NoAccount == [RelayLimit |-> 0, MaxAllowedNodes |-> 0, loaded |-> FALSE]

\* the default-elite template: a relay limit of 2, and a limit of nodes
\* that is left open
DefaultEliteAccounts == { Account(2, n) : n \in {0, 6} }

\* the blocks of an account body
AccountBlocks ==
    { [kind |-> k, RelayLimit |-> r, MaxAllowedNodes |-> n] :
        k \in {"object", "type"}, r \in Limits, n \in {0, MaxLimit} }
        \cup {[kind |-> "syntax", RelayLimit |-> 0, MaxAllowedNodes |-> 0]}

AccountBodies == {<<>>} \cup { <<b>> : b \in AccountBlocks }

AccountResponses == DirectoryResponses(AccountBodies)

\* json.Unmarshal into a message.Account{}: a document whose fields do not
\* all fit still fills in the fields that do, and is an error
UnmarshalAccount(data) ==
    IF ~IsDocument(data)
    THEN [account |-> EmptyAccount, err |-> "could not deserialize"]
    ELSE [account |-> Account(data[1].RelayLimit, data[1].MaxAllowedNodes),
          err |-> IF data[1].kind = "type" THEN "could not deserialize" ELSE ""]

\* copier.CopyWithOption(&defaults, account, IgnoreEmpty, DeepCopy): the
\* template, under the fields of the account that are not zero
fillInAccountDefaults(account, defaults) ==
    Account(IF account.RelayLimit = 0 THEN defaults.RelayLimit ELSE account.RelayLimit,
            IF account.MaxAllowedNodes = 0 THEN defaults.MaxAllowedNodes
            ELSE account.MaxAllowedNodes)

\* getAccountModelWithEndpoint, given what the request returned
getAccountModelWithEndpoint(r, defaults) ==
    IF r.err # ""
    THEN [account |-> EmptyAccount, err |-> r.err]
    ELSE LET u == UnmarshalAccount(r.data) IN
         IF u.err # ""
         THEN [account |-> u.account, err |-> u.err]
         ELSE [account |-> fillInAccountDefaults(u.account, defaults), err |-> ""]

\* an account stored as it was loaded
StoredAsLoaded(account) ==
    [RelayLimit |-> account.RelayLimit, MaxAllowedNodes |-> account.MaxAllowedNodes,
     loaded |-> TRUE]

\* the account getAccountModel stores: a relay limit of 0 becomes 1, a
\* limit of nodes of 0 becomes 6
StoredAccount(account) ==
    [RelayLimit |-> IF account.RelayLimit = 0 THEN 1 ELSE account.RelayLimit,
     MaxAllowedNodes |-> IF account.MaxAllowedNodes = 0 THEN 6
                         ELSE account.MaxAllowedNodes,
     loaded |-> TRUE]

EthereumProtocol == "Ethereum"

\* a terminal total difficulty, in decimal: not configured, the one of
\* Ethereum main net, and math.MaxInt
ZeroTTD == "0"
MainnetTTD == "58750000000000000000000"
MaxIntTTD == "9223372036854775807"

MainnetNum == 5
BSCMainnetNum == 10
NetworkNums == {MainnetNum, BSCMainnetNum}

\* message.BlockchainNetwork, as far as the session looks into it
BlockchainNetwork(num, protocol, ttd) ==
    [NetworkNum |-> num, Protocol |-> protocol, TerminalTotalDifficulty |-> ttd]

\* the networks the directory can describe
BlockchainNetworkValues ==
    {BlockchainNetwork(MainnetNum, EthereumProtocol, ZeroTTD),
     BlockchainNetwork(MainnetNum, EthereumProtocol, MainnetTTD),
     BlockchainNetwork(BSCMainnetNum, EthereumProtocol, ZeroTTD),
     BlockchainNetwork(BSCMainnetNum, "Bitcoin", ZeroTTD)}

\* an answer for a cached endpoint with the bodies given: the body of an
\* answer other than 200 is not part of what the session gets
CachedResponses(bodies) ==
    {[transportErr |-> TRUE, status |-> 0, body |-> <<>>]}
        \cup { [transportErr |-> FALSE, status |-> st, body |-> <<>>] : st \in {503, 500} }
        \cup { [transportErr |-> FALSE, status |-> 200, body |-> b] : b \in bodies }

\* the blocks of the body of /blockchain-networks/<num>
NetworkBlocks ==
    { [kind |-> "object", network |-> n] : n \in BlockchainNetworkValues }
        \cup {[kind |-> "syntax", network |-> BlockchainNetwork(0, "", "")]}

NetworkResponses == CachedResponses({<<>>} \cup { <<b>> : b \in NetworkBlocks })

\* the lists of networks the directory can answer with: none, one, two
NetworkLists ==
    {<<>>} \cup { <<n>> : n \in BlockchainNetworkValues }
           \cup { <<n, m>> : n \in BlockchainNetworkValues, m \in BlockchainNetworkValues }

\* the blocks of the body of /blockchain-networks
NetworksBlocks ==
    { [kind |-> "object", networks |-> l] : l \in NetworkLists }
        \cup {[kind |-> "syntax", networks |-> <<>>]}

NetworksResponses == CachedResponses({<<>>} \cup { <<b>> : b \in NetworksBlocks })

\* an entry of the networks map
NetworkEntry(protocol, ttd) == [Protocol |-> protocol, TerminalTotalDifficulty |-> ttd]

\* new(message.BlockchainNetwork)
NewNetworkEntry == NetworkEntry("", "")

\* the networks map of a session: none loaded
EmptyNetworks == [k \in {} |-> NewNetworkEntry]

\* the entry FetchBlockchainNetwork leaves for a network of protocol
\* Ethereum with a terminal total difficulty of 0
ReplaceZeroTTD(entry) ==
    IF entry.Protocol = EthereumProtocol /\ entry.TerminalTotalDifficulty = ZeroTTD
    THEN NetworkEntry(entry.Protocol, MaxIntTTD)
    ELSE entry

\* the map with key num set to entry
StoreNetwork(networks, num, entry) ==
    [k \in DOMAIN networks \cup {num} |-> IF k = num THEN entry ELSE networks[k]]

\* FetchBlockchainNetwork for the network number num, given what
\* httpWithCache returned: the map afterwards and the error
FetchBlockchainNetworkOn(networks, num, r) ==
    IF r.err # ""
    THEN [networks |-> networks, err |-> r.err]
    ELSE LET made == IF num \in DOMAIN networks THEN networks
                     ELSE StoreNetwork(networks, num, NewNetworkEntry)
         IN IF ~IsDocument(r.data)
            THEN [networks |-> made, err |-> "could not deserialize"]
            ELSE [networks |->
                    StoreNetwork(made, num,
                        ReplaceZeroTTD(NetworkEntry(r.data[1].network.Protocol,
                            r.data[1].network.TerminalTotalDifficulty))),
                  err |-> ""]

\* the map filled from a list of networks, in the order of the list
RECURSIVE FillNetworks(_, _)
FillNetworks(networks, list) ==
    IF list = <<>> THEN networks
    ELSE FillNetworks(
             StoreNetwork(networks, Head(list).NetworkNum,
                 NetworkEntry(Head(list).Protocol, Head(list).TerminalTotalDifficulty)),
             Tail(list))

\* a load that adds the networks of the list to the map
getBlockchainNetworksMerging(networks, r) ==
    IF r.err # ""
    THEN [networks |-> networks, err |-> r.err]
    ELSE IF ~IsDocument(r.data)
    THEN [networks |-> networks, err |-> "could not deserialize"]
    ELSE [networks |-> FillNetworks(networks, r.data[1].networks), err |-> ""]

\* getBlockchainNetworks, given what httpWithCache returned: the map
\* afterwards and the error
getBlockchainNetworks(networks, r) ==
    IF r.err # ""
    THEN [networks |-> networks, err |-> r.err]
    ELSE IF ~IsDocument(r.data)
    THEN [networks |-> networks, err |-> "could not deserialize"]
    ELSE [networks |-> FillNetworks(EmptyNetworks, r.data[1].networks), err |-> ""]

\* message.NodeModel, as far as Register looks into it
NodeModel(nodeID, csr, cert) == [NodeID |-> nodeID, Csr |-> csr, Cert |-> cert]

\* a field that a JSON document does not have
Absent == "absent"

\* the blocks of the body of POST /nodes: a node model with or without a
\* node ID, a csr field and a certificate
NodeModelBlocks ==
    { [kind |-> "object", node |-> NodeModel(id, csr, cert)] :
        id \in {Absent, "", "id"}, csr \in {Absent, ""}, cert \in {Absent, "cert"} }
        \cup {[kind |-> "syntax", node |-> NodeModel(Absent, Absent, Absent)]}

NodeModelResponses == CachedResponses({<<>>} \cup { <<b>> : b \in NodeModelBlocks })

\* json.Unmarshal into a struct that is already filled: a field the
\* document does not have keeps its value
UnmarshalField(old, new) == IF new = Absent THEN old ELSE new

UnmarshalNodeModel(old, new) ==
    NodeModel(UnmarshalField(old.NodeID, new.NodeID), UnmarshalField(old.Csr, new.Csr),
              UnmarshalField(old.Cert, new.Cert))

\* which call on the certificate store fails during Register: none,
\* CreateCSR or GetNodeID (before the request), GetAccountID (after it),
\* SavePrivateCert
StoreOutcomes == CertOutcomes \cup {"save"}

\* NewSDNHTTP, with a certificate store that needs a private certificate
\* or has one.  saved counts the certificates persisted, registered says
\* that a Register has succeeded that got a node ID and persisted the
\* certificate.
NewSDNHTTP(needsPrivateCert) ==
    [nodeID |-> "", nodeModel |-> NodeModel("", "", ""), accountModel |-> NoAccount,
     networks |-> EmptyNetworks, needsPrivateCert |-> needsPrivateCert, saved |-> 0,
     registered |-> FALSE]

NeedsRegistration(s) == s.nodeID = "" \/ s.needsPrivateCert

\* what a Register call did besides returning its error
RegisterValue(needed, requested, csr, persisted, panicked) ==
    [needed |-> needed, requested |-> requested, csr |-> csr, persisted |-> persisted,
     panicked |-> panicked]

\* Register on the session s, with the cache file as it is on disk, the
\* answer resp and the certificate store failing as out says: the session
\* and the cache file afterwards, the error, and what the call did
RegisterOn(s, file, resp, out) ==
    LET needed == s.needsPrivateCert
        s1 == IF needed
              THEN [s EXCEPT !.nodeModel.Csr = "csr"]
              ELSE [s EXCEPT !.nodeID = "id"]
        r == httpWithCache(resp, file)
        s2 == [s1 EXCEPT !.nodeModel = UnmarshalNodeModel(s1.nodeModel, r.data[1].node)]
        s3 == [s2 EXCEPT !.nodeID = s2.nodeModel.NodeID]
    IN IF out = "before"
       THEN [sdn |-> s, file |-> file, err |-> "certificate store",
             value |-> RegisterValue(needed, FALSE, "", FALSE, FALSE)]
       ELSE IF r.err # ""
       THEN [sdn |-> s1, file |-> r.file, err |-> r.err,
             value |-> RegisterValue(needed, TRUE, s1.nodeModel.Csr, FALSE, FALSE)]
       ELSE IF ~IsDocument(r.data)
       THEN [sdn |-> s1, file |-> r.file, err |-> "could not deserialize",
             value |-> RegisterValue(needed, TRUE, s1.nodeModel.Csr, FALSE, FALSE)]
       ELSE IF out = "after"
       THEN [sdn |-> s2, file |-> r.file, err |-> "certificate store",
             value |-> RegisterValue(needed, TRUE, s1.nodeModel.Csr, FALSE, FALSE)]
       ELSE IF ~needed
       THEN [sdn |-> s3, file |-> r.file, err |-> "",
             value |-> RegisterValue(needed, TRUE, s1.nodeModel.Csr, FALSE, FALSE)]
       ELSE IF out = "save"
       THEN [sdn |-> s3, file |-> r.file, err |-> "",
             value |-> RegisterValue(needed, TRUE, s1.nodeModel.Csr, FALSE, TRUE)]
       ELSE [sdn |-> [s3 EXCEPT !.needsPrivateCert = FALSE, !.saved = @ + 1,
                                !.registered = @ \/ s3.nodeID # ""],
             file |-> r.file, err |-> "",
             value |-> RegisterValue(needed, TRUE, s1.nodeModel.Csr, TRUE, FALSE)]

\* a call on the session: the operation, the answer of the directory, the
\* error returned, and what else the call returned or logged
CallReturn(op, resp, err, value) ==
    [op |-> op, resp |-> resp, err |-> err, value |-> value]

NoCall ==
    CallReturn("none", [transportErr |-> FALSE, status |-> 0, body |-> <<>>], "", <<>>)

\* the blocks of a quota body
QuotaBlocks ==
    { [kind |-> k, QuotaFilled |-> f] : k \in {"object", "syntax"}, f \in {0, MaxLimit} }

QuotaResponses == DirectoryResponses({<<>>} \cup { <<b>> : b \in QuotaBlocks })

\* no QuotaResponseBody
NoQuota == [set |-> FALSE, QuotaFilled |-> 0]

\* Get: the body of whatever answer came, the status is not looked at
Get(resp) ==
    IF resp.transportErr
    THEN [data |-> nil, err |-> "transport error"]
    ELSE [data |-> resp.body, err |-> ""]

\* GetQuotaUsage on the answer resp: the quota returned and the error
GetQuotaUsageOn(resp) ==
    LET r == Get(resp) IN
    IF r.err # ""
    THEN [quota |-> NoQuota, err |-> r.err]
    ELSE IF ~IsDocument(r.data) \/ r.data[1].kind = "type"
    THEN [quota |-> NoQuota, err |-> "could not deserialize"]
    ELSE [quota |-> [set |-> TRUE, QuotaFilled |-> r.data[1].QuotaFilled], err |-> ""]

\* the lists of peers handed to getPingLatencies
PingPeers == SeqsUpTo({ Peer(h) : h \in IPs }, MaxLen)

\* what the ping of one peer gives: the command fails, or it prints a time
\* that parses to the number given (0 when it does not parse)
ProbeOutcomes ==
    {[ok |-> FALSE, time |-> 0]} \cup { [ok |-> TRUE, time |-> t] : t \in {-1, 0, 3, 13} }

NotProbed == [ok |-> FALSE, time |-> -1]

\* the entry of a peer before its probe ran
TimedOut(peer) == [IP |-> peer.ip, Port |-> peer.port, Latency |-> PingTimeout]

\* the slice after the task holding the pointer to entry ptr saw outcome
ProbeWrite(pingResults, ptr, outcome) ==
    IF outcome.ok /\ outcome.time > 0
    THEN [pingResults EXCEPT ![ptr].Latency = outcome.time]
    ELSE pingResults

\* the orders sort.Slice can leave the slice in: ascending by latency,
\* entries of equal latency in any order
SortedByLatency(pingResults) ==
    { q \in { [i \in 1..Len(pingResults) |-> pingResults[perm[i]]] :
                perm \in IndexOrders(Len(pingResults)) } :
        IsSortedByLatency(q) }

\* a return that does not wait for the tasks
WaitSkipped(running) == TRUE

\* wg.Wait(): every task has called wg.Done()
WaitDone(running) == running = {}

IdlePing ==
    [pc |-> "idle", peers |-> <<>>, pingResults |-> <<>>, running |-> {},
     probed |-> <<>>, result |-> <<>>]

\* ---------------------------------------------------------------- state
VARIABLES
    relayHosts,         \* parser run: the specification text
    relayLimit,         \* parser run: the limit
    parsed,             \* parser run: result of parsedCmdlineRelays
    ignoredRelays,      \* the shared IgnoredRelays map, IP -> RelayInfo
    relayInstructions,  \* the instructions sent on the channel, in send order
    drc,                \* the DirectRelayConnections call in progress
    procs,              \* manageAutoRelays tasks: background and FindNewRelay
    ffr,                \* the FindFastestRelays call in progress
    calls,              \* controller invocations so far
    drcCalls,           \* DirectRelayConnections invocations so far
    inFlight,           \* per IP: Connects sent since it was last stored
                        \* with IsConnected=false
    disk,               \* the cache files of the data directory
    fetch,              \* the last httpWithCache call and what it returned
    gw,                 \* the InitGateway call
    ctxDone,            \* the ctx handed to FindNewRelay is cancelled
    sdn,                \* the fields of realSDNHTTP and the certificate store
    ret,                \* the last call on the session and what it returned
    ping                \* the getPingLatencies call in progress

parseVars == <<relayHosts, relayLimit, parsed>>
relayVars == <<ignoredRelays, relayInstructions, drc, procs, ffr, calls, drcCalls, inFlight>>
cacheVars == <<disk, fetch, gw>>
sessionVars == <<sdn, ret, ping>>
vars == <<relayHosts, relayLimit, parsed, ignoredRelays, relayInstructions, drc,
          procs, ffr, calls, drcCalls, inFlight, disk, fetch, gw, ctxDone,
          sdn, ret, ping>>

NotParsed == [relays |-> EmptyRelayMap, autoCount |-> 0, err |-> "not run"]

\* the slots of the manageAutoRelays tasks: every invocation starts at
\* most one
Procs == 1..MaxCalls

IdleDRC ==
    [pc |-> "idle", remaining |-> EmptyRelayMap, autoCount |-> 0, cur |-> "",
     limit |-> 0, result |-> "none"]

IdleProc ==
    [kind |-> "idle", pc |-> "idle", autoRelayCount |-> 0, pingLatencies |-> <<>>,
     idx |-> 0, autoRelayCounter |-> 0, cur |-> "", oldRelayIP |-> ""]

EmptySwitchMap == [k \in {} |-> <<>>]

IdleFFR ==
    [pc |-> "idle", pingLatencies |-> <<>>, toVisit |-> {}, visited |-> {},
     connectedAutoRelays |-> EmptyIgnored, relaysToSwitch |-> EmptySwitchMap]

ParseVarsIdle ==
    /\ relayHosts = <<>>
    /\ relayLimit = 0
    /\ parsed = NotParsed

CacheVarsIdle ==
    /\ disk = [k \in CacheFiles |-> NoFile]
    /\ fetch = NoFetch
    /\ gw = IdleGateway

\* ctx is not cancelled.  The controller below leaves the moment of the
\* cancellation open (FNRCancel is the select that finds ctx.Done() ready);
\* the recovery runs follow it in ctxDone.
CtxIdle == ctxDone = FALSE

SessionVarsIdle ==
    /\ sdn = NewSDNHTTP(TRUE)
    /\ ret = NoCall
    /\ ping = IdlePing

RelayVarsIdle ==
    /\ ignoredRelays = EmptyIgnored
    /\ relayInstructions = <<>>
    /\ drc = IdleDRC
    /\ procs = [p \in Procs |-> IdleProc]
    /\ ffr = IdleFFR
    /\ calls = 0
    /\ drcCalls = 0
    /\ inFlight = [ip \in IPs |-> 0]

\* ------------------------------------------------------------ parser runs
InitParse ==
    /\ relayHosts \in RelayTexts \cup DuplicateTexts
    /\ relayLimit \in Limits
    /\ parsed = NotParsed
    /\ RelayVarsIdle
    /\ CacheVarsIdle
    /\ CtxIdle
    /\ SessionVarsIdle

Parse ==
    /\ parsed = NotParsed
    /\ relayHosts # <<>>
    /\ parsed' = parsedCmdlineRelays(relayHosts, relayLimit)
    /\ UNCHANGED <<relayHosts, relayLimit>>
    /\ UNCHANGED <<relayVars, cacheVars, ctxDone, sessionVars>>

NextParse == Parse

SpecParse == InitParse /\ [][NextParse]_vars

\* C4: a successful parse returns |overrideRelays| + autoCount <= relayLimit,
\* for every specification and every limit, 0 included.
ParseWithinLimit ==
    (parsed # NotParsed /\ parsed.err = "")
        => Cardinality(DOMAIN parsed.relays) + parsed.autoCount <= relayLimit

\* a text of more tokens than the limit, parsed up to the limit
ParseStoppedAtLimitWitness ==
    /\ parsed # NotParsed
    /\ parsed.err = ""
    /\ relayLimit > 0
    /\ Len(relayHosts) > relayLimit
    /\ Cardinality(DOMAIN parsed.relays) + parsed.autoCount = relayLimit

\* ------------------------------------------------------- relay controller
\* getRelays: the outcome of GET .../potential-relays: an error or the
\* peer list of the response (or of the cache file).  The controller reads
\* nothing else of the fetcher, whose cache files are followed in the
\* directory session below.
GetRelaysOutcomes ==
    {[err |-> TRUE, relays |-> <<>>]} \cup { [err |-> FALSE, relays |-> l] : l \in RelayLists }

FreeProcs == { p \in Procs : procs[p].kind = "idle" }

\* the slot a new task gets
NewProc == CHOOSE p \in FreeProcs : \A q \in FreeProcs : p <= q

Restrict(m, keys) == [k \in keys |-> m[k]]

SentConnect(ip) ==
    inFlight' = [inFlight EXCEPT ![ip] = IF @ < 2 THEN @ + 1 ELSE @]

\* a call that goes to its auto relays at once
RunningAutoOnly(r, limit) ==
    [pc |-> "fetch", remaining |-> r.relays, autoCount |-> r.autoCount, cur |-> "",
     limit |-> limit, result |-> "running"]

\* the call with the relays and the count r of the parse
Running(r, limit) ==
    [pc |-> IF DOMAIN r.relays = {} THEN "fetch" ELSE "store",
     remaining |-> r.relays, autoCount |-> r.autoCount, cur |-> "",
     limit |-> limit, result |-> "running"]

\* a call that does not look at the error of the parse
AfterParseIgnoringError(r, limit) == Running(r, limit)

\* DirectRelayConnections after parsedCmdlineRelays returned r: the error
\* is returned, otherwise the static relays are next
AfterParse(r, limit) ==
    IF r.err # ""
    THEN [IdleDRC EXCEPT !.result = r.err, !.limit = limit]
    ELSE Running(r, limit)

\* DirectRelayConnections, up to the first static relay: the parse.
DRCCall ==
    /\ drc.pc = "idle"
    /\ calls < MaxCalls
    /\ \E text \in DRCTexts, limit \in 1..MaxLimit :
         drc' = AfterParse(parsedCmdlineRelays(text, limit), limit)
    /\ calls' = calls + 1
    /\ drcCalls' = drcCalls + 1
    /\ UNCHANGED <<ignoredRelays, relayInstructions, procs, ffr, inFlight>>
    /\ UNCHANGED <<parseVars, cacheVars, ctxDone, sessionVars>>

\* the Store of one static relay (map iteration order is arbitrary)
DRCStore ==
    /\ drc.pc = "store"
    /\ \E ip \in DOMAIN drc.remaining :
         /\ ignoredRelays' = Store(ignoredRelays, ip, RelayInfo(drc.remaining[ip], TRUE, TRUE))
         /\ drc' = [drc EXCEPT !.pc = "send", !.cur = ip]
    /\ UNCHANGED <<relayInstructions, procs, ffr, calls, drcCalls, inFlight>>
    /\ UNCHANGED <<parseVars, cacheVars, ctxDone, sessionVars>>

\* the send of its Connect
DRCSend ==
    /\ drc.pc = "send"
    /\ relayInstructions' =
         Append(relayInstructions,
                RelayInstruction(drc.cur, drc.remaining[drc.cur], Connect, TRUE, <<>>))
    /\ SentConnect(drc.cur)
    /\ LET rest == DOMAIN drc.remaining \ {drc.cur} IN
       drc' = [drc EXCEPT !.pc = IF rest = {} THEN "fetch" ELSE "store",
                          !.cur = "",
                          !.remaining = Restrict(drc.remaining, rest)]
    /\ UNCHANGED <<ignoredRelays, procs, ffr, calls, drcCalls>>
    /\ UNCHANGED <<parseVars, cacheVars, ctxDone, sessionVars>>

\* the rest of the call: nothing to do without auto slots, otherwise the
\* candidate fetch and the start of the background manageAutoRelays.
DRCFinish ==
    /\ drc.pc = "fetch"
    /\ IF drc.autoCount = 0
       THEN /\ drc' = [IdleDRC EXCEPT !.limit = drc.limit, !.result = "nil"]
            /\ UNCHANGED procs
       ELSE \E out \in GetRelaysOutcomes :
              IF out.err
              THEN /\ drc' = [IdleDRC EXCEPT !.limit = drc.limit,
                                             !.result = "failed to extract relay list"]
                   /\ UNCHANGED procs
              ELSE IF Len(out.relays) = 0
              THEN /\ drc' = [IdleDRC EXCEPT !.limit = drc.limit, !.result = "ErrNoRelays"]
                   /\ UNCHANGED procs
              ELSE /\ FreeProcs # {}
                   /\ \E pl \in { x \in ProbedLists : x.relays = out.relays } :
                        procs' = [procs EXCEPT ![NewProc] =
                                    [kind |-> "bg", pc |-> "scan",
                                     autoRelayCount |-> drc.autoCount,
                                     pingLatencies |-> pl.pings, idx |-> 1,
                                     autoRelayCounter |-> 0, cur |-> "",
                                     oldRelayIP |-> ""]]
                   /\ drc' = [IdleDRC EXCEPT !.limit = drc.limit, !.result = "nil"]
    /\ UNCHANGED <<ignoredRelays, relayInstructions, ffr, calls, drcCalls, inFlight>>
    /\ UNCHANGED <<parseVars, cacheVars, ctxDone, sessionVars>>

\* the candidates of manageAutoRelays from index i on that the loop passes
\* over: no IP behind the name, or a key LoadOrStore finds in the map.
\* The result is the index of the first candidate it stores, or
\* Len + 1.  (An entry of the map is never deleted, so a key found
\* present stays present until the loop reaches the candidate it stores.)
RECURSIVE NextToStore(_, _, _)
NextToStore(pingLatencies, i, m) ==
    IF i > Len(pingLatencies)
    THEN i
    ELSE LET r == GetIP(pingLatencies[i].IP) IN
         IF r.err
         THEN NextToStore(pingLatencies, i + 1, m)
         ELSE IF LoadOrStore(m, r.ip, RelayInfo(0, TRUE, FALSE)).loaded
         THEN NextToStore(pingLatencies, i + 1, m)
         ELSE i

\* manageAutoRelays, the loop up to the next send: the candidates passed
\* over and the LoadOrStore that inserts the next relay.
ManageScan(p) ==
    /\ procs[p].pc = "scan"
    /\ LET me == procs[p]
           i == NextToStore(me.pingLatencies, me.idx, ignoredRelays)
       IN
       IF i > Len(me.pingLatencies)
       THEN \* failed to find all needed auto relays
            /\ procs' = [procs EXCEPT ![p] = IdleProc]
            /\ UNCHANGED ignoredRelays
       ELSE LET pingLatency == me.pingLatencies[i]
                newRelayIP == GetIP(pingLatency.IP).ip
            IN /\ ignoredRelays' =
                    LoadOrStore(ignoredRelays, newRelayIP,
                                RelayInfo(pingLatency.Port, TRUE, FALSE)).map
               /\ procs' = [procs EXCEPT ![p].pc = "send", ![p].cur = newRelayIP,
                                         ![p].idx = i]
    /\ UNCHANGED <<relayInstructions, drc, ffr, calls, drcCalls, inFlight>>
    /\ UNCHANGED <<parseVars, cacheVars, ctxDone, sessionVars>>

\* a task that never has enough relays
NeverFoundAll(autoRelayCounter, autoRelayCount) == FALSE

\* if autoRelayCounter == autoRelayCount: all auto relays are found
FoundAll(autoRelayCounter, autoRelayCount) == autoRelayCounter = autoRelayCount

\* manageAutoRelays, the send of the Connect and the count
ManageSend(p) ==
    /\ procs[p].pc = "send"
    /\ LET me == procs[p] IN
       /\ relayInstructions' =
            Append(relayInstructions,
                   RelayInstruction(me.cur, me.pingLatencies[me.idx].Port, Connect,
                                    FALSE, <<>>))
       /\ SentConnect(me.cur)
       /\ procs' = IF FoundAll(me.autoRelayCounter + 1, me.autoRelayCount)
                   THEN [procs EXCEPT ![p] = IdleProc]
                   ELSE [procs EXCEPT ![p].pc = "scan", ![p].cur = "",
                                      ![p].idx = @ + 1,
                                      ![p].autoRelayCounter = @ + 1]
    /\ UNCHANGED <<ignoredRelays, drc, ffr, calls, drcCalls>>
    /\ UNCHANGED <<parseVars, cacheVars, ctxDone, sessionVars>>

\* an entry for the old relay that leaves it connected
StillConnectedInfo(oldRelayIPPort) == RelayInfo(oldRelayIPPort, TRUE, FALSE)

\* an entry for the old relay that forgets its port
DisconnectedAtDefaultPort(oldRelayIPPort) == RelayInfo(defaultRelayPort, FALSE, FALSE)

\* the entry FindNewRelay writes for the old relay
DisconnectedInfo(oldRelayIPPort) == RelayInfo(oldRelayIPPort, FALSE, FALSE)

\* FindNewRelay, first statement: the old relay is recorded as
\* disconnected.  It is called for a relay the map records as connected.
FNRCall ==
    /\ calls < MaxCalls
    /\ FreeProcs # {}
    /\ \E oldRelayIP \in DOMAIN ignoredRelays :
         /\ ignoredRelays[oldRelayIP].IsConnected
         /\ ignoredRelays' = Store(ignoredRelays, oldRelayIP,
                                   DisconnectedInfo(ignoredRelays[oldRelayIP].Port))
         /\ procs' = [procs EXCEPT ![NewProc] =
                        [IdleProc EXCEPT !.kind = "fnr", !.pc = "fetch",
                                         !.autoRelayCount = 1,
                                         !.oldRelayIP = oldRelayIP]]
         /\ inFlight' = [inFlight EXCEPT ![oldRelayIP] = 0]
    /\ calls' = calls + 1
    /\ UNCHANGED <<relayInstructions, drc, ffr, drcCalls>>
    /\ UNCHANGED <<parseVars, cacheVars, ctxDone, sessionVars>>

\* connectToNewRelay up to the loop of manageAutoRelays: an error or an
\* empty list sends FindNewRelay to its select.
FNRFetch(p) ==
    /\ procs[p].kind = "fnr"
    /\ procs[p].pc = "fetch"
    /\ \E out \in GetRelaysOutcomes :
         IF out.err \/ Len(out.relays) = 0
         THEN procs' = [procs EXCEPT ![p].pc = "wait"]
         ELSE \E pl \in { x \in ProbedLists : x.relays = out.relays } :
                procs' = [procs EXCEPT ![p].pc = "scan", ![p].pingLatencies = pl.pings,
                                       ![p].idx = 1, ![p].autoRelayCounter = 0]
    /\ UNCHANGED <<ignoredRelays, relayInstructions, drc, ffr, calls, drcCalls, inFlight>>
    /\ UNCHANGED <<parseVars, cacheVars, ctxDone, sessionVars>>

\* the select of FindNewRelay: ctx.Done()
FNRCancel(p) ==
    /\ procs[p].kind = "fnr"
    /\ procs[p].pc = "wait"
    /\ procs' = [procs EXCEPT ![p] = IdleProc]
    /\ UNCHANGED <<ignoredRelays, relayInstructions, drc, ffr, calls, drcCalls, inFlight>>
    /\ UNCHANGED <<parseVars, cacheVars, ctxDone, sessionVars>>

\* the select of FindNewRelay: time.After(RelayMonitorInterval)
FNRRetry(p) ==
    /\ procs[p].kind = "fnr"
    /\ procs[p].pc = "wait"
    /\ procs' = [procs EXCEPT ![p].pc = "fetch"]
    /\ UNCHANGED <<ignoredRelays, relayInstructions, drc, ffr, calls, drcCalls, inFlight>>
    /\ UNCHANGED <<parseVars, cacheVars, ctxDone, sessionVars>>

\* ---------------------------------------------------- FindFastestRelays
\* a test that forgets the static flag
IsConnectedOnly(value) == value.IsConnected

\* a test that forgets the connection flag
IsNotStatic(value) == ~value.IsStatic

\* the test of getAutoConnectedRelays on one entry
IsAutoConnected(value) == value.IsConnected /\ ~value.IsStatic

\* findFastestAvailableRelays from entry i on: the probes of connected
\* relays update the local copy, the others are the available relays.
RECURSIVE FastestFrom(_, _, _, _)
FastestFrom(pingLatencies, i, connectedAutoRelays, fastestAvailableRelays) ==
    IF i > Len(pingLatencies)
    THEN [available |-> fastestAvailableRelays, connected |-> connectedAutoRelays]
    ELSE LET pingLatency == pingLatencies[i] IN
         IF pingLatency.IP \in DOMAIN connectedAutoRelays
         THEN FastestFrom(pingLatencies, i + 1,
                          [connectedAutoRelays EXCEPT
                              ![pingLatency.IP].Latency = pingLatency.Latency],
                          fastestAvailableRelays)
         ELSE FastestFrom(pingLatencies, i + 1, connectedAutoRelays,
                          Append(fastestAvailableRelays, pingLatency))

\* a variant that takes a connected relay without a probe for timed out
findFastestTimingOut(pingLatencies, connectedAutoRelays) ==
    LET f == FastestFrom(pingLatencies, 1, connectedAutoRelays, <<>>)
        probed == { pingLatencies[i].IP : i \in 1..Len(pingLatencies) }
    IN [available |-> f.available,
        connected |-> [ip \in DOMAIN f.connected |->
                         IF ip \in probed
                         THEN f.connected[ip]
                         ELSE [f.connected[ip] EXCEPT !.Latency = PingTimeout]]]

findFastestAvailableRelays(pingLatencies, connectedAutoRelays) ==
    FastestFrom(pingLatencies, 1, connectedAutoRelays, <<>>)

\* a test without the threshold
IsFaster(relayLatency, candidateLatency) ==
    ~(relayLatency < candidateLatency)

\* the test of the inner loop of findRelaysToSwitch
ClearsThreshold(relayLatency, candidateLatency) ==
    ~(relayLatency < candidateLatency + latencyThreshold)

\* an inner loop that is content with one candidate
SwitchesFirstOnly(relayLatency, fastestAvailableRelays, i) ==
    IF i > Len(fastestAvailableRelays)
    THEN <<>>
    ELSE IF ~ClearsThreshold(relayLatency, fastestAvailableRelays[i].Latency)
    THEN <<>>
    ELSE <<fastestAvailableRelays[i]>>

\* the inner loop of findRelaysToSwitch for one relay: it stops at the
\* first candidate that does not clear the threshold.
RECURSIVE SwitchesFrom(_, _, _)
SwitchesFrom(relayLatency, fastestAvailableRelays, i) ==
    IF i > Len(fastestAvailableRelays)
    THEN <<>>
    ELSE IF ~ClearsThreshold(relayLatency, fastestAvailableRelays[i].Latency)
    THEN <<>>
    ELSE <<fastestAvailableRelays[i]>> \o
         SwitchesFrom(relayLatency, fastestAvailableRelays, i + 1)

\* findRelaysToSwitch: old relay -> its new relays, for the relays that have
\* any.  The result does not depend on the order convertMapToSortedSlice
\* gives to relays of equal latency.
findRelaysToSwitch(connectedAutoRelays, fastestAvailableRelays) ==
    LET lists == [ip \in DOMAIN connectedAutoRelays |->
                    SwitchesFrom(connectedAutoRelays[ip].Latency, fastestAvailableRelays, 1)]
    IN Restrict(lists, { ip \in DOMAIN connectedAutoRelays : Len(lists[ip]) > 0 })

\* a call that leaves out the relays it sent a Switch for before
AfterRangeOncePerRelay(pingLatencies, connectedAutoRelays) ==
    LET f == findFastestAvailableRelays(pingLatencies, connectedAutoRelays)
        switched == { relayInstructions[i].IP : i \in
                        { j \in 1..Len(relayInstructions) :
                            relayInstructions[j].Type = Switch } }
        all == findRelaysToSwitch(f.connected, f.available)
        relaysToSwitch == Restrict(all, DOMAIN all \ switched)
    IN IF DOMAIN relaysToSwitch = {}
       THEN IdleFFR
       ELSE [IdleFFR EXCEPT !.pc = "send", !.pingLatencies = pingLatencies,
                            !.connectedAutoRelays = f.connected,
                            !.relaysToSwitch = relaysToSwitch]

\* the state of the call after the Range: the switches are computed, and
\* the call is over when there are none.
AfterRange(pingLatencies, connectedAutoRelays) ==
    LET f == findFastestAvailableRelays(pingLatencies, connectedAutoRelays)
        relaysToSwitch == findRelaysToSwitch(f.connected, f.available)
    IN IF DOMAIN relaysToSwitch = {}
       THEN IdleFFR
       ELSE [IdleFFR EXCEPT !.pc = "send", !.pingLatencies = pingLatencies,
                            !.connectedAutoRelays = f.connected,
                            !.relaysToSwitch = relaysToSwitch]

\* FindFastestRelays up to the Range: candidate fetch and probes.  The
\* Range of an empty map is over at once.
FFRCall ==
    /\ ffr.pc = "idle"
    /\ calls < MaxCalls
    /\ \E out \in GetRelaysOutcomes :
         IF out.err \/ Len(out.relays) = 0
         THEN ffr' = IdleFFR
         ELSE \E pl \in { x \in ProbedLists : x.relays = out.relays } :
                ffr' = IF DOMAIN ignoredRelays = {}
                       THEN AfterRange(pl.pings, EmptyIgnored)
                       ELSE [IdleFFR EXCEPT !.pc = "range", !.pingLatencies = pl.pings,
                                            !.toVisit = DOMAIN ignoredRelays]
    /\ calls' = calls + 1
    /\ UNCHANGED <<ignoredRelays, relayInstructions, drc, procs, drcCalls, inFlight>>
    /\ UNCHANGED <<parseVars, cacheVars, ctxDone, sessionVars>>

\* a Range whose snapshot shares its entries with the map: the latencies
\* written to the snapshot show in the map
FFRRangeSharing ==
    /\ ffr.pc = "range"
    /\ \E key \in DOMAIN ignoredRelays \ ffr.visited, last \in BOOLEAN :
         LET visited == ffr.visited \cup {key}
             connectedAutoRelays ==
                 IF IsAutoConnected(ignoredRelays[key])
                 THEN Store(ffr.connectedAutoRelays, key, ignoredRelays[key])
                 ELSE ffr.connectedAutoRelays
         IN IF last
            THEN /\ ffr.toVisit \subseteq visited
                 /\ ffr' = AfterRange(ffr.pingLatencies, connectedAutoRelays)
            ELSE /\ visited # DOMAIN ignoredRelays
                 /\ ffr' = [ffr EXCEPT !.visited = visited,
                                       !.connectedAutoRelays = connectedAutoRelays]
    /\ ignoredRelays' =
         [ip \in DOMAIN ignoredRelays |->
            IF ip \in DOMAIN ffr'.connectedAutoRelays
            THEN ffr'.connectedAutoRelays[ip]
            ELSE ignoredRelays[ip]]
    /\ UNCHANGED <<relayInstructions, drc, procs, calls, drcCalls, inFlight>>
    /\ UNCHANGED <<parseVars, cacheVars, ctxDone, sessionVars>>

\* getAutoConnectedRelays, the callback of Range on one key: Range shows
\* each key as it is when visited, and a key inserted meanwhile may or may
\* not be visited.  After the last key the switches are computed.
FFRRange ==
    /\ ffr.pc = "range"
    /\ \E key \in DOMAIN ignoredRelays \ ffr.visited, last \in BOOLEAN :
         LET visited == ffr.visited \cup {key}
             connectedAutoRelays ==
                 IF IsAutoConnected(ignoredRelays[key])
                 THEN Store(ffr.connectedAutoRelays, key, ignoredRelays[key])
                 ELSE ffr.connectedAutoRelays
         IN IF last
            THEN /\ ffr.toVisit \subseteq visited
                 /\ ffr' = AfterRange(ffr.pingLatencies, connectedAutoRelays)
            ELSE /\ visited # DOMAIN ignoredRelays
                 /\ ffr' = [ffr EXCEPT !.visited = visited,
                                       !.connectedAutoRelays = connectedAutoRelays]
    /\ UNCHANGED <<ignoredRelays, relayInstructions, drc, procs, calls, drcCalls, inFlight>>
    /\ UNCHANGED <<parseVars, cacheVars, ctxDone, sessionVars>>

\* the send of one Switch (map iteration order is arbitrary)
FFRSend ==
    /\ ffr.pc = "send"
    /\ \E oldRelay \in DOMAIN ffr.relaysToSwitch :
         /\ relayInstructions' =
              Append(relayInstructions,
                     RelayInstruction(oldRelay, ffr.connectedAutoRelays[oldRelay].Port,
                                      Switch, FALSE, ffr.relaysToSwitch[oldRelay]))
         /\ LET rest == DOMAIN ffr.relaysToSwitch \ {oldRelay} IN
            ffr' = IF rest = {}
                   THEN IdleFFR
                   ELSE [ffr EXCEPT !.relaysToSwitch = Restrict(@, rest)]
    /\ UNCHANGED <<ignoredRelays, drc, procs, calls, drcCalls, inFlight>>
    /\ UNCHANGED <<parseVars, cacheVars, ctxDone, sessionVars>>

\* ------------------------------------------------------------ controller
Init ==
    /\ ParseVarsIdle
    /\ RelayVarsIdle
    /\ CacheVarsIdle
    /\ CtxIdle
    /\ SessionVarsIdle

Next ==
    \/ DRCCall
    \/ DRCStore
    \/ DRCSend
    \/ DRCFinish
    \/ \E p \in Procs : ManageScan(p)
    \/ \E p \in Procs : ManageSend(p)
    \/ FNRCall
    \/ \E p \in Procs : FNRFetch(p)
    \/ \E p \in Procs : FNRCancel(p)
    \/ \E p \in Procs : FNRRetry(p)
    \/ FFRCall
    \/ FFRRange
    \/ FFRSend

Spec == Init /\ [][Next]_vars

\* ------------------------------------------------------ one bootstrap call
\* the tokens of the specifications of the single calls: no whitespace
DRCTokens == { Tok(parts) : parts \in PartsChoices }

\* one DirectRelayConnections call on a new map, with any specification and
\* any limit; relayHosts, relayLimit and parsed keep its arguments and what
\* its parse returned
InitDRC ==
    /\ relayHosts \in SeqsUpTo(DRCTokens, MaxTokens)
    /\ relayLimit \in Limits
    /\ parsed = NotParsed
    /\ RelayVarsIdle
    /\ CacheVarsIdle
    /\ CtxIdle
    /\ SessionVarsIdle

DirectRelayConnections ==
    /\ parsed = NotParsed
    /\ drc.pc = "idle"
    /\ parsed' = parsedCmdlineRelays(relayHosts, relayLimit)
    /\ drc' = AfterParse(parsed', relayLimit)
    /\ calls' = calls + 1
    /\ drcCalls' = drcCalls + 1
    /\ UNCHANGED <<relayHosts, relayLimit>>
    /\ UNCHANGED <<ignoredRelays, relayInstructions, procs, ffr, inFlight>>
    /\ UNCHANGED <<cacheVars, ctxDone, sessionVars>>

NextDRC ==
    \/ DirectRelayConnections
    \/ DRCStore
    \/ DRCSend
    \/ DRCFinish
    \/ \E p \in Procs : ManageScan(p)
    \/ \E p \in Procs : ManageSend(p)

SpecDRC == InitDRC /\ [][NextDRC]_vars

\* ------------------------------------------------------- recovery runs
\* the caller cancels the ctx it handed to FindNewRelay
CtxCancel ==
    /\ ~ctxDone
    /\ ctxDone' = TRUE
    /\ UNCHANGED <<parseVars, relayVars, cacheVars, sessionVars>>

\* the select of FindNewRelay once ctx is cancelled: ctx.Done() is ready
\* and the timer, started by the select, is not
RecoveryCancel(p) == ctxDone /\ FNRCancel(p)

\* the select of FindNewRelay while ctx is not cancelled: the timer fires
RecoveryRetry(p) == ~ctxDone /\ FNRRetry(p)

NextRecovery ==
    \/ DRCCall
    \/ DRCStore
    \/ DRCSend
    \/ DRCFinish
    \/ \E p \in Procs : ManageScan(p)
    \/ \E p \in Procs : ManageSend(p)
    \/ FNRCall
    \/ \E p \in Procs : FNRFetch(p)
    \/ \E p \in Procs : RecoveryCancel(p)
    \/ \E p \in Procs : RecoveryRetry(p)
    \/ CtxCancel

\* What the scheduler and the timeouts give: a task that can run its next
\* statement runs it, the candidate fetch and the probes come back (10 s and
\* 2 s), the timer of the select fires.  A send on the channel is over only
\* when the data plane takes the instruction: nothing makes it happen.
RecoveryFairness ==
    /\ WF_vars(\E p \in Procs : ManageScan(p))
    /\ WF_vars(\E p \in Procs : FNRFetch(p))
    /\ WF_vars(\E p \in Procs : RecoveryCancel(p))
    /\ WF_vars(\E p \in Procs : RecoveryRetry(p))

SpecRecovery == Init /\ [][NextRecovery]_vars /\ RecoveryFairness

\* ---------------------------------------------------- directory session
\* one httpWithCache call of operation op, answered by resp
Fetch(op, resp, r, result) ==
    /\ disk' = [disk EXCEPT ![op.key] = r.file]
    /\ fetch' = [name |-> op.name, method |-> op.method, key |-> op.key, resp |-> resp,
                 data |-> r.data, err |-> r.err, result |-> result]

\* the error Register returns
RegisterResult(cert, r) ==
    IF OpResult(r) # "" THEN OpResult(r)
    ELSE IF cert = "after" THEN "certificate store" ELSE ""

\* FetchBlockchainNetwork, called on its own
FetchBlockchainNetwork ==
    /\ \E resp \in Responses :
         LET r == httpWithCache(resp, disk[FetchBlockchainNetworkOp.key]) IN
         Fetch(FetchBlockchainNetworkOp, resp, r, OpResult(r))
    /\ UNCHANGED <<gw, parseVars, relayVars, ctxDone, sessionVars>>

\* InitGateway: protocol and network are set, the networks map is reset
InitGateway ==
    /\ gw.pc \in {"idle", "done"}
    /\ gw' = [pc |-> "register", err |-> ""]
    /\ UNCHANGED <<disk, fetch, parseVars, relayVars, ctxDone, sessionVars>>

\* a step that goes on whatever the error
GatewayStepIgnoringError(err, next) == gw' = [pc |-> next, err |-> ""]

\* the step of InitGateway: the error ends it, no error leads to next
GatewayStep(err, next) ==
    gw' = IF err # "" THEN [pc |-> "done", err |-> err] ELSE [pc |-> next, err |-> ""]

\* InitGateway: Register, which the certificate store stops before the
\* request
InitGatewayNoRequest ==
    /\ gw.pc = "register"
    /\ GatewayStep("certificate store", "network")
    /\ UNCHANGED <<disk, fetch, parseVars, relayVars, ctxDone, sessionVars>>

\* InitGateway: Register, with its request
InitGatewayRegister ==
    /\ gw.pc = "register"
    /\ \E cert \in CertOutcomes \ {"before"}, resp \in Responses :
         LET r == httpWithCache(resp, disk[RegisterOp.key]) IN
         /\ Fetch(RegisterOp, resp, r, RegisterResult(cert, r))
         /\ GatewayStep(RegisterResult(cert, r), "network")
    /\ UNCHANGED <<parseVars, relayVars, ctxDone, sessionVars>>

\* InitGateway: FetchBlockchainNetwork
InitGatewayNetwork ==
    /\ gw.pc = "network"
    /\ \E resp \in Responses :
         LET r == httpWithCache(resp, disk[FetchBlockchainNetworkOp.key]) IN
         /\ Fetch(FetchBlockchainNetworkOp, resp, r, OpResult(r))
         /\ GatewayStep(OpResult(r), "account")
    /\ UNCHANGED <<parseVars, relayVars, ctxDone, sessionVars>>

\* InitGateway: getAccountModel, the last step
InitGatewayAccount ==
    /\ gw.pc = "account"
    /\ \E resp \in Responses :
         LET r == httpWithCache(resp, disk[getAccountModelOp.key]) IN
         /\ Fetch(getAccountModelOp, resp, r, OpResult(r))
         /\ gw' = [pc |-> "done", err |-> OpResult(r)]
    /\ UNCHANGED <<parseVars, relayVars, ctxDone, sessionVars>>

NextCache ==
    \/ FetchBlockchainNetwork
    \/ InitGateway
    \/ InitGatewayNoRequest
    \/ InitGatewayRegister
    \/ InitGatewayNetwork
    \/ InitGatewayAccount

SpecCache == Init /\ [][NextCache]_vars

\* ------------------------------------------------------ account session
\* getAccountModel: the own account through the cache, stored whatever
\* the error
getAccountModel ==
    /\ \E resp \in AccountResponses, defaults \in DefaultEliteAccounts :
         LET r == httpWithCache(resp, disk[accountModelsFileName])
             m == getAccountModelWithEndpoint(r, defaults)
         IN /\ disk' = [disk EXCEPT ![accountModelsFileName] = r.file]
            /\ sdn' = [sdn EXCEPT !.accountModel = StoredAccount(m.account)]
            /\ ret' = CallReturn("getAccountModel", resp, m.err,
                                  [account |-> m.account, defaults |-> defaults])
    /\ UNCHANGED <<fetch, gw, ping, parseVars, relayVars, ctxDone>>

\* FetchCustomerAccountModel: the account of a customer, by a plain request
FetchCustomerAccountModel ==
    /\ \E resp \in AccountResponses, defaults \in DefaultEliteAccounts :
         LET m == getAccountModelWithEndpoint(http(resp), defaults)
         IN ret' = CallReturn("FetchCustomerAccountModel", resp, m.err,
                              [account |-> m.account, defaults |-> defaults])
    /\ UNCHANGED <<cacheVars, sdn, ping, parseVars, relayVars, ctxDone>>

\* GetQuotaUsage
GetQuotaUsage ==
    /\ \E resp \in QuotaResponses :
         LET q == GetQuotaUsageOn(resp)
         IN ret' = CallReturn("GetQuotaUsage", resp, q.err, [quota |-> q.quota])
    /\ UNCHANGED <<cacheVars, sdn, ping, parseVars, relayVars, ctxDone>>

\* SendNodeEvent: returns nothing, an error of the request is logged
SendNodeEvent ==
    /\ \E resp \in QuotaResponses :
         ret' = CallReturn("SendNodeEvent", resp, "", [logged |-> http(resp).err])
    /\ UNCHANGED <<cacheVars, sdn, ping, parseVars, relayVars, ctxDone>>

NextAccount ==
    \/ getAccountModel
    \/ FetchCustomerAccountModel
    \/ GetQuotaUsage
    \/ SendNodeEvent

SpecAccount == Init /\ [][NextAccount]_vars

\* ----------------------------------------------------- networks session
\* FetchBlockchainNetwork for the network number of the node model.  The
\* map has been made (InitGateway, or an earlier FetchAllBlockchainNetworks).
FetchBlockchainNetworkOfNode ==
    /\ \E resp \in NetworkResponses, num \in NetworkNums :
         LET r == httpWithCache(resp, disk[blockchainNetworkCacheFileName])
             f == FetchBlockchainNetworkOn(sdn.networks, num, r)
         IN /\ disk' = [disk EXCEPT ![blockchainNetworkCacheFileName] = r.file]
            /\ sdn' = [sdn EXCEPT !.networks = f.networks]
            /\ ret' = CallReturn("FetchBlockchainNetwork", resp, f.err,
                                  [data |-> r.data, before |-> sdn.networks])
    /\ UNCHANGED <<fetch, gw, ping, parseVars, relayVars, ctxDone>>

\* FetchAllBlockchainNetworks
FetchAllBlockchainNetworks ==
    /\ \E resp \in NetworksResponses :
         LET r == httpWithCache(resp, disk[blockchainNetworksCacheFileName])
             f == getBlockchainNetworks(sdn.networks, r)
         IN /\ disk' = [disk EXCEPT ![blockchainNetworksCacheFileName] = r.file]
            /\ sdn' = [sdn EXCEPT !.networks = f.networks]
            /\ ret' = CallReturn("FetchAllBlockchainNetworks", resp, f.err,
                                  [data |-> r.data, before |-> sdn.networks])
    /\ UNCHANGED <<fetch, gw, ping, parseVars, relayVars, ctxDone>>

NextNetworks ==
    \/ FetchBlockchainNetworkOfNode
    \/ FetchAllBlockchainNetworks

SpecNetworks == Init /\ [][NextNetworks]_vars

\* ----------------------------------------------------- registration runs
\* a session on a certificate store that needs a private certificate or
\* has one
InitRegister ==
    /\ ParseVarsIdle
    /\ RelayVarsIdle
    /\ CacheVarsIdle
    /\ CtxIdle
    /\ sdn \in { NewSDNHTTP(needs) : needs \in BOOLEAN }
    /\ ret = NoCall
    /\ ping = IdlePing

\* Register.  A panic ends the process.
Register ==
    /\ ~(ret.op = "Register" /\ ret.value.panicked)
    /\ \E resp \in NodeModelResponses, out \in StoreOutcomes :
         LET g == RegisterOn(sdn, disk[nodeModelCacheFileName], resp, out)
         IN /\ disk' = [disk EXCEPT ![nodeModelCacheFileName] = g.file]
            /\ sdn' = g.sdn
            /\ ret' = CallReturn("Register", resp, g.err, g.value)
    /\ UNCHANGED <<fetch, gw, ping, parseVars, relayVars, ctxDone>>

NextRegister == Register

SpecRegister == InitRegister /\ [][NextRegister]_vars

\* ---------------------------------------------------------- switch runs
\* the maps FindFastestRelays can find: any of the relays, each connected
\* as an automatic or as a static relay, or not connected
ConnectedMaps ==
    UNION { [ips -> {RelayInfo(defaultRelayPort, TRUE, FALSE),
                     RelayInfo(defaultRelayPort, TRUE, TRUE),
                     RelayInfo(defaultRelayPort, FALSE, FALSE)}] : ips \in SUBSET IPs }

\* FindFastestRelays on a map that earlier calls have filled; the
\* instructions of those calls are not kept
InitSwitch ==
    /\ ParseVarsIdle
    /\ CacheVarsIdle
    /\ CtxIdle
    /\ SessionVarsIdle
    /\ ignoredRelays \in ConnectedMaps
    /\ relayInstructions = <<>>
    /\ drc = IdleDRC
    /\ procs = [p \in Procs |-> IdleProc]
    /\ ffr = IdleFFR
    /\ calls = 0
    /\ drcCalls = 0
    /\ inFlight = [ip \in IPs |->
                     IF ip \in DOMAIN ignoredRelays /\ ignoredRelays[ip].IsConnected
                     THEN 1 ELSE 0]

NextSwitch ==
    \/ FFRCall
    \/ FFRRange
    \/ FFRSend

SpecSwitch == InitSwitch /\ [][NextSwitch]_vars

\* ------------------------------------------------------ steady runs
\* FindFastestRelays calls while the directory returns the same candidates
\* and the probes measure the same latencies: ping holds what
\* getPingLatencies returns to every call of the run
InitSteady ==
    /\ ParseVarsIdle
    /\ CacheVarsIdle
    /\ CtxIdle
    /\ sdn = NewSDNHTTP(TRUE)
    /\ ret = NoCall
    /\ \E pl \in ProbedLists :
         ping = [IdlePing EXCEPT !.pc = "done", !.peers = pl.relays, !.result = pl.pings]
    /\ ignoredRelays \in ConnectedMaps
    /\ relayInstructions = <<>>
    /\ drc = IdleDRC
    /\ procs = [p \in Procs |-> IdleProc]
    /\ ffr = IdleFFR
    /\ calls = 0
    /\ drcCalls = 0
    /\ inFlight = [ip \in IPs |->
                     IF ip \in DOMAIN ignoredRelays /\ ignoredRelays[ip].IsConnected
                     THEN 1 ELSE 0]

\* FindFastestRelays up to the Range, with the probe results of the run
FFRCallSteady ==
    /\ FFRCall
    /\ ffr'.pc = "range"
    /\ ffr'.pingLatencies = ping.result

NextSteady ==
    \/ FFRCallSteady
    \/ FFRRange
    \/ FFRSend

SpecSteady == InitSteady /\ [][NextSteady]_vars

\* ------------------------------------------------------------ race runs
\* FindFastestRelays and FindNewRelay calls, in any interleaving, on a map
\* that earlier calls have filled
NextRace ==
    \/ FFRCall
    \/ FFRRange
    \/ FFRSend
    \/ FNRCall
    \/ \E p \in Procs : FNRFetch(p)
    \/ \E p \in Procs : ManageScan(p)
    \/ \E p \in Procs : ManageSend(p)
    \/ \E p \in Procs : FNRCancel(p)
    \/ \E p \in Procs : FNRRetry(p)

SpecRace == InitSwitch /\ [][NextRace]_vars

\* ------------------------------------------------------ replacement runs
\* FindNewRelay calls on a map that earlier calls have filled
NextReplace ==
    \/ FNRCall
    \/ \E p \in Procs : FNRFetch(p)
    \/ \E p \in Procs : ManageScan(p)
    \/ \E p \in Procs : ManageSend(p)
    \/ \E p \in Procs : FNRCancel(p)
    \/ \E p \in Procs : FNRRetry(p)

SpecReplace == InitSwitch /\ [][NextReplace]_vars

\* ------------------------------------------------------- latency prober
\* getPingLatencies up to wg.Wait(): every entry is set to PingTimeout and
\* a task is started with the pointer to it
PingCall ==
    /\ ping.pc \in {"idle", "done"}
    /\ ping.running = {}
    /\ \E peers \in PingPeers :
         ping' = [pc |-> "wait", peers |-> peers,
                  pingResults |-> [i \in 1..Len(peers) |-> TimedOut(peers[i])],
                  running |-> 1..Len(peers),
                  probed |-> [i \in 1..Len(peers) |-> NotProbed],
                  result |-> <<>>]
    /\ UNCHANGED <<sdn, ret, cacheVars, parseVars, relayVars, ctxDone>>

\* the task of entry i: the ping, the write through its pointer, wg.Done()
Probe(i) ==
    /\ i \in ping.running
    /\ \E outcome \in ProbeOutcomes :
         ping' = [ping EXCEPT !.pingResults = ProbeWrite(@, i, outcome),
                              !.probed[i] = outcome,
                              !.running = @ \ {i}]
    /\ UNCHANGED <<sdn, ret, cacheVars, parseVars, relayVars, ctxDone>>

\* wg.Wait() is over: the slice is sorted and returned
PingReturn ==
    /\ ping.pc = "wait"
    /\ WaitDone(ping.running)
    /\ \E q \in SortedByLatency(ping.pingResults) :
         ping' = [ping EXCEPT !.pc = "done", !.result = q]
    /\ UNCHANGED <<sdn, ret, cacheVars, parseVars, relayVars, ctxDone>>

NextPing ==
    \/ PingCall
    \/ \E i \in 1..MaxLen : Probe(i)
    \/ PingReturn

SpecPing == Init /\ [][NextPing]_vars

\* ------------------------------------------------------------- properties
ConnectedIPs == { ip \in DOMAIN ignoredRelays : ignoredRelays[ip].IsConnected }

\* the step sends an instruction
Sends == Len(relayInstructions') = Len(relayInstructions) + 1
Sent == relayInstructions'[Len(relayInstructions')]

\* C1: no two Connects are sent for one IP unless the IP was stored with
\* IsConnected=false between them.
NoDuplicateConnect == \A ip \in IPs : inFlight[ip] <= 1

\* C2: every Switch that FindFastestRelays sends for a relay R lists at
\* least one candidate, and every candidate C of the list has
\* R.latency - C.latency >= latencyThreshold, with the latency the call
\* uses for R.
SwitchClearsThreshold ==
    [][(Sends /\ Sent.Type = Switch) =>
          /\ Len(Sent.RelaysToSwitch) > 0
          /\ \A i \in 1..Len(Sent.RelaysToSwitch) :
               ffr.connectedAutoRelays[Sent.IP].Latency - Sent.RelaysToSwitch[i].Latency
                  >= latencyThreshold]_vars

SwitchSentWitness ==
    \E i \in 1..Len(relayInstructions) :
        /\ relayInstructions[i].Type = Switch
        /\ Len(relayInstructions[i].RelaysToSwitch) > 0

\* C3: the relay of a Switch is an entry that FindFastestRelays saw, when
\* it ranged over the map, connected and not static: an entry recorded
\* static is never switched away from.
SwitchOnlyAutoRelays ==
    [][(Sends /\ Sent.Type = Switch) =>
          /\ Sent.IP \in DOMAIN ffr.connectedAutoRelays
          /\ ffr.connectedAutoRelays[Sent.IP].IsConnected
          /\ ~ffr.connectedAutoRelays[Sent.IP].IsStatic
          /\ ~Sent.IsStatic]_vars

SwitchBesideStaticWitness ==
    /\ \E i \in 1..Len(relayInstructions) : relayInstructions[i].Type = Switch
    /\ \E ip \in ConnectedIPs :
         /\ ignoredRelays[ip].IsStatic
         /\ \A i \in 1..Len(relayInstructions) :
              relayInstructions[i].Type = Switch => relayInstructions[i].IP # ip

\* C9: after one DirectRelayConnections with limit L, however FindNewRelay
\* and FindFastestRelays calls interleave with it, at most L entries of the
\* map are connected.
ConnectedWithinLimit ==
    drcCalls = 1 => Cardinality(ConnectedIPs) <= drc.limit

ReplacedWitness ==
    /\ drcCalls = 1
    /\ drc.pc = "idle"
    /\ \A p \in Procs : procs[p].kind = "idle"
    /\ \E ip \in DOMAIN ignoredRelays : ~ignoredRelays[ip].IsConnected
    /\ Cardinality(ConnectedIPs) = drc.limit
    /\ \E i \in 1..Len(relayInstructions) :
         relayInstructions[i].Type = Connect /\ ~relayInstructions[i].IsStatic

\* C10: a relay connected as static keeps IsStatic=true in the map (it is
\* never replaced by an auto relay).
StaticStaysStatic ==
    \A i \in 1..Len(relayInstructions) :
        (relayInstructions[i].Type = Connect /\ relayInstructions[i].IsStatic)
            => /\ relayInstructions[i].IP \in DOMAIN ignoredRelays
               /\ ignoredRelays[relayInstructions[i].IP].IsStatic

\* C5: after successful httpWithCache calls on a key, whatever the lengths
\* of the responses, the cache file holds exactly the bytes the last
\* successful call returned.
CacheEqualsReturned ==
    (fetch.name # "none" /\ fetch.err = "")
        => /\ disk[fetch.key].exists
           /\ disk[fetch.key].bytes = fetch.data

\* C6: a call answered 503 whose cache file exists succeeds, returns the
\* bytes of the file and leaves the file as it was, for POST /nodes as for
\* the GET endpoints.
UnavailableServedFromCache ==
    [][(fetch'.name # "none" /\ ~fetch'.resp.transportErr /\ fetch'.resp.status = 503
          /\ disk[fetch'.key].exists)
         => /\ fetch'.err = ""
            /\ fetch'.data = disk[fetch'.key].bytes
            /\ disk' = disk]_vars

PostServedFromCacheWitness ==
    /\ fetch.method = "POST"
    /\ ~fetch.resp.transportErr /\ fetch.resp.status = 503
    /\ fetch.err = ""
    /\ disk[fetch.key].exists
    /\ fetch.data = disk[fetch.key].bytes
    /\ Len(fetch.data) > 0

\* C7: a call answered 503 whose cache file does not exist returns an error
\* and no data, and the InitGateway whose Register gets that answer fails.
UnavailableWithoutCacheFails ==
    [][(fetch'.name # "none" /\ ~fetch'.resp.transportErr /\ fetch'.resp.status = 503
          /\ ~disk[fetch'.key].exists)
         => /\ fetch'.err # ""
            /\ fetch'.data = nil
            /\ ~disk'[fetch'.key].exists
            /\ (gw.pc = "register" /\ gw'.pc # "register" /\ fetch'.name = "Register")
                 => (gw'.pc = "done" /\ gw'.err # "")]_vars

InitGatewayFailedWitness ==
    /\ gw.pc = "done"
    /\ gw.err = "can't load cache file"
    /\ fetch.name = "Register"
    /\ ~fetch.resp.transportErr /\ fetch.resp.status = 503
    /\ ~disk[fetch.key].exists
    /\ fetch.data = nil

\* C8: a cached GET that meets a transport error falls back to the cache
\* file, as on 503, and returns its bytes when the file exists.
TransportErrorServedFromCache ==
    [][(fetch'.name # "none" /\ fetch'.resp.transportErr /\ fetch'.method = "GET"
          /\ disk[fetch'.key].exists)
         => /\ fetch'.err = ""
            /\ fetch'.data = disk[fetch'.key].bytes]_vars

\* the call has returned; with an error
DRCReturned == parsed # NotParsed /\ drc.pc = "idle"
DRCFailed == DRCReturned /\ drc.result # "nil"

ErrorEmitsNothing ==
    DRCFailed => relayInstructions = <<>>

\* what a token says: auto, or a host and a port
TokenIsAuto(tok) == IsAutoText(Trimmed(tok))
TokenIP(tok) == GetIP(HostText(Trimmed(tok))).ip
TokenPort(tok) ==
    IF Len(tok.parts) = 2 THEN Atoi(PortText(Trimmed(tok))).n ELSE defaultRelayPort

\* a token that the parser accepts when it gets to it
IsValidToken(tok) ==
    LET t == Trimmed(tok) IN
    \/ IsAutoText(t)
    \/ /\ ~IsEmptyText(t)
       /\ Len(t.parts) <= 2
       /\ ~GetIP(HostText(t)).err
       /\ Len(t.parts) = 2 => PortText(t) \in {"34", "1809"}

\* a token whose port is not an integer
HasBadPort(tok) == Len(tok.parts) = 2 /\ tok.parts[2] \in {"abc", ""}

\* the static and the auto tokens among the first n tokens of a text
StaticsIn(text, n) == { j \in 1..n : ~TokenIsAuto(text[j]) }
AutosIn(text, n) == { j \in 1..n : TokenIsAuto(text[j]) }

\* the distinct relays plus the auto slots that the first n tokens name
SlotsIn(text, n) ==
    Cardinality({ TokenIP(text[j]) : j \in StaticsIn(text, n) })
        + Cardinality(AutosIn(text, n))

\* the relays and auto slots that the tokens before token i name
SlotsBefore(i) == SlotsIn(relayHosts, i - 1)

\* token i has a port that is no integer and is the first invalid token
FirstInvalidIsBadPort(i) ==
    /\ HasBadPort(relayHosts[i])
    /\ \A j \in 1..(i - 1) : IsValidToken(relayHosts[j])

PortErrorNoInstructions ==
    /\ drc.result = "port not valid"
    /\ relayInstructions = <<>>

\* C13 as stated: whatever the limit and wherever the token is, a
\* specification with a token of non-integer port makes the call fail with
\* the port error and send nothing.
BadPortFailsAtAnyLimit ==
    \A i \in 1..Len(relayHosts) :
        (DRCReturned /\ FirstInvalidIsBadPort(i)) => PortErrorNoInstructions

\* C13: a token of non-integer port that is the first invalid token of the
\* specification makes DirectRelayConnections fail with the port error and
\* send nothing exactly when the tokens before it name fewer relays and auto
\* slots than the limit; at a limit that is met before the token the parse
\* halts without looking at it and reports no error.
BadPortFailsWhenReached ==
    \A i \in 1..Len(relayHosts) :
        (DRCReturned /\ FirstInvalidIsBadPort(i))
            => IF SlotsBefore(i) < relayLimit
               THEN PortErrorNoInstructions
               ELSE parsed.err = "" /\ drc.result # "port not valid"

BadPortSecondTokenWitness ==
    /\ relayHosts = <<Tok(<<"1.1.1.1">>), Tok(<<"2.2.2.2", "abc">>)>>
    /\ relayLimit = 2
    /\ DRCReturned
    /\ PortErrorNoInstructions

\* the tokens the loop gets through before the limit is met
Consumed(text, limit) ==
    LET full == { n \in 0..Len(text) : SlotsIn(text, n) = limit } IN
    IF full = {} THEN Len(text) ELSE CHOOSE n \in full : \A m \in full : n <= m

\* the first token that names ip
FirstOf(text, ip) ==
    CHOOSE j \in StaticsIn(text, Len(text)) :
        /\ TokenIP(text[j]) = ip
        /\ \A k \in StaticsIn(text, j - 1) : TokenIP(text[k]) # ip

\* C14: tokens that name the same IP give one entry with the port of the
\* first of them and no error, and the IP counts once toward the limit: the
\* result is the distinct IPs and the auto slots of the tokens up to the
\* point where distinct IPs plus auto slots reach the limit.
DuplicatesCollapse ==
    LET n == Consumed(relayHosts, relayLimit) IN
    (/\ parsed # NotParsed
     /\ ~IsEmptyString(relayHosts)
     /\ \A j \in 1..n : IsValidToken(relayHosts[j]))
        => /\ parsed.err = ""
           /\ DOMAIN parsed.relays = { TokenIP(relayHosts[j]) : j \in StaticsIn(relayHosts, n) }
           /\ parsed.autoCount = Cardinality(AutosIn(relayHosts, n))
           /\ \A ip \in DOMAIN parsed.relays :
                parsed.relays[ip] = TokenPort(relayHosts[FirstOf(relayHosts, ip)])

\* "1.1.1.1, 1.1.1.1:34, auto" at limit 2: one relay with the default port
\* and the auto slot
DuplicateThenAutoWitness ==
    /\ relayHosts = <<Tok(<<"1.1.1.1">>), Tok(<<"1.1.1.1", "34">>), Tok(<<"auto">>)>>
    /\ relayLimit = 2
    /\ parsed.err = ""
    /\ DOMAIN parsed.relays = {"1.1.1.1"}
    /\ parsed.relays["1.1.1.1"] = defaultRelayPort
    /\ parsed.autoCount = 1

\* normalize: every run of whitespace of the text becomes one space
NormalizePad(pad) == IF pad = "" THEN "" ELSE " "
Normalize(text) ==
    [i \in 1..Len(text) |->
        [lead |-> NormalizePad(text[i].lead), parts |-> text[i].parts,
         trail |-> NormalizePad(text[i].trail)]]

\* two parses agree: both fail, or both give the same relays and count
SameParse(a, b) ==
    IF a.err # "" \/ b.err # ""
    THEN a.err # "" /\ b.err # ""
    ELSE a.relays = b.relays /\ a.autoCount = b.autoCount

\* C15: for every specification and limit, the parse of the text and the
\* parse of the text with its whitespace collapsed agree.
ParseOfNormalizedAgrees ==
    parsed # NotParsed
        => SameParse(parsed, parsedCmdlineRelays(Normalize(relayHosts), relayLimit))

\* the instructions before the last one carry other IPs
FirstForIP(instructions) ==
    \A i \in 1..(Len(instructions) - 1) :
        instructions[i].IP # instructions[Len(instructions)].IP

\* the candidates before index idx that resolve to an IP outside ips
PassedOver(pingLatencies, idx, ips) ==
    { i \in 1..(idx - 1) :
        ~GetIP(pingLatencies[i].IP).err /\ GetIP(pingLatencies[i].IP).ip \notin ips }

\* C16: in one DirectRelayConnections call no IP gets two Connects, and
\* the Connect of an auto slot goes to the fastest candidate that is neither
\* a static relay of the specification nor connected before it, never to a
\* static relay.
AutoSlotAvoidsStatic ==
    [][Sends =>
         /\ FirstForIP(relayInstructions')
         /\ ~Sent.IsStatic =>
              /\ Sent.IP \notin DOMAIN parsed.relays
              /\ \E p \in Procs :
                   /\ procs[p].pc = "send"
                   /\ Sent.IP = GetIP(procs[p].pingLatencies[procs[p].idx].IP).ip
                   /\ PassedOver(procs[p].pingLatencies, procs[p].idx,
                                 DOMAIN parsed.relays
                                   \cup { relayInstructions[i].IP :
                                            i \in 1..Len(relayInstructions) }) = {}]_vars

\* "auto, 1.1.1.1" at limit 2: Connect for 1.1.1.1 (static) and for 2.2.2.2
AutoBesideStaticWitness ==
    /\ relayHosts = <<Tok(<<"auto">>), Tok(<<"1.1.1.1">>)>>
    /\ relayLimit = 2
    /\ relayInstructions =
         <<RelayInstruction("1.1.1.1", defaultRelayPort, Connect, TRUE, <<>>),
           RelayInstruction("2.2.2.2", defaultRelayPort, Connect, FALSE, <<>>)>>

\* the Connects of auto relays, in send order
AutoConnects(instructions) ==
    SelectSeq(instructions, LAMBDA x : x.Type = Connect /\ ~x.IsStatic)

\* the IPs of the resolvable candidates that are not in ips
Eligible(pingLatencies, ips) ==
    { GetIP(pingLatencies[i].IP).ip :
        i \in { j \in 1..Len(pingLatencies) : ~GetIP(pingLatencies[j].IP).err } } \ ips

\* the latency of ip: the lowest among the candidates that resolve to it
LatencyOf(pingLatencies, ip) ==
    LET ls == { pingLatencies[i].Latency :
                  i \in { j \in 1..Len(pingLatencies) :
                            GetIP(pingLatencies[j].IP) = [ip |-> ip, err |-> FALSE] } }
    IN CHOOSE l \in ls : \A m \in ls : l <= m

Min(a, b) == IF a <= b THEN a ELSE b

\* C17: when the manageAutoRelays task of a call ends it has sent
\* min(autoRelayCount, e) Connects, e the number of IPs of resolvable
\* candidates that were not in the map when it started; they go to e-many
\* lowest-latency such IPs at most, in ascending order of latency.
ManageSendsFastest ==
    [][\A p \in Procs :
         (procs[p].kind = "bg" /\ procs'[p].kind = "idle") =>
            LET sent == AutoConnects(relayInstructions')
                pings == procs[p].pingLatencies
                eligible == Eligible(pings, DOMAIN parsed.relays)
                sentIPs == { sent[i].IP : i \in 1..Len(sent) }
            IN /\ Len(sent) = Min(procs[p].autoRelayCount, Cardinality(eligible))
               /\ Cardinality(sentIPs) = Len(sent)
               /\ sentIPs \subseteq eligible
               /\ \A i, j \in 1..Len(sent) :
                    i < j => LatencyOf(pings, sent[i].IP) <= LatencyOf(pings, sent[j].IP)
               /\ \A ip \in eligible \ sentIPs : \A i \in 1..Len(sent) :
                    LatencyOf(pings, sent[i].IP) <= LatencyOf(pings, ip)]_vars

\* "auto, auto" at limit 2 with 1.1.1.1 and the name of 1.1.1.1 in front:
\* the task is over after the Connects for 1.1.1.1 and 2.2.2.2
TwoAutoConnectsWitness ==
    /\ relayHosts = <<Tok(<<"auto">>), Tok(<<"auto">>)>>
    /\ DRCReturned
    /\ \A p \in Procs : procs[p] = IdleProc
    /\ relayInstructions =
         <<RelayInstruction("1.1.1.1", defaultRelayPort, Connect, FALSE, <<>>),
           RelayInstruction("2.2.2.2", defaultRelayPort, Connect, FALSE, <<>>)>>

\* C18: a FindNewRelay whose ctx is not cancelled returns only with the
\* Connect of a replacement relay; an attempt without one leads to the wait
\* and to another attempt.
RecoveryReturnsAfterConnect ==
    [][\A p \in Procs :
         (procs[p].kind = "fnr" /\ procs'[p].kind = "idle" /\ ~ctxDone)
            => (Sends /\ Sent.Type = Connect /\ ~Sent.IsStatic)]_vars

\* C19: once ctx is cancelled every FindNewRelay that is running returns,
\* whatever the directory answers and whether the data plane takes
\* instructions from the channel or not.
CancelEndsRecovery ==
    ctxDone ~> (\A p \in Procs : procs[p].kind # "fnr")

\* a step of InitGateway that issues the request of operation name: with
\* no error the call is at next, with an error it has returned that error
GatewayRequested(name, next) ==
    /\ fetch'.name = name
    /\ IF fetch'.result = ""
       THEN gw' = [pc |-> next, err |-> ""]
       ELSE gw' = [pc |-> "done", err |-> fetch'.result]

\* a step of InitGateway that fails with no request
GatewayFailedBeforeRequest ==
    /\ gw'.pc = "done"
    /\ gw'.err # ""
    /\ fetch' = fetch
    /\ disk' = disk

AccountLimitsAtLeastOne ==
    /\ sdn.accountModel.loaded =>
          sdn.accountModel.RelayLimit >= 1 /\ sdn.accountModel.MaxAllowedNodes >= 1
    /\ ret.op = "getAccountModel" =>
          /\ sdn.accountModel.loaded
          /\ sdn.accountModel.RelayLimit =
                IF ret.value.account.RelayLimit = 0 THEN 1
                ELSE ret.value.account.RelayLimit
          /\ sdn.accountModel.MaxAllowedNodes =
                IF ret.value.account.MaxAllowedNodes = 0 THEN 6
                ELSE ret.value.account.MaxAllowedNodes

\* a failed load has stored the limits 1 and 6
FailedLoadStoresDefaultsWitness ==
    /\ ret.op = "getAccountModel"
    /\ ret.err # ""
    /\ ret.value.account = EmptyAccount
    /\ sdn.accountModel.RelayLimit = 1
    /\ sdn.accountModel.MaxAllowedNodes = 6

\* ------------------------------------------------------------------
\* C22: after a load of blockchain networks that succeeded, by
\* FetchBlockchainNetwork or by FetchAllBlockchainNetworks, no network of
\* protocol Ethereum in the map has a terminal total difficulty of 0.
NoZeroTTDAfterLoad ==
    (ret.op \in {"FetchBlockchainNetwork", "FetchAllBlockchainNetworks"} /\ ret.err = "") =>
        \A k \in DOMAIN sdn.networks :
            sdn.networks[k].Protocol = EthereumProtocol =>
                sdn.networks[k].TerminalTotalDifficulty # ZeroTTD

\* ------------------------------------------------------------------
\* the list of networks a successful FetchAllBlockchainNetworks was given:
\* the one of the response, or on a 503 the one of the cache file
NetworksGiven ==
    LET src == IF ret.resp.status = 503
               THEN disk[blockchainNetworksCacheFileName].bytes
               ELSE ret.resp.body
    IN src[1].networks

\* the last network of the list with the number k
LastNumbered(list, k) ==
    LET i == CHOOSE j \in 1..Len(list) :
                 /\ list[j].NetworkNum = k
                 /\ \A h \in (j + 1)..Len(list) : list[h].NetworkNum # k
    IN list[i]

\* C23: after a FetchAllBlockchainNetworks that succeeded the map holds
\* exactly the networks of the response, or of the cache file on a 503:
\* its keys are the numbers of the list, each entry is the network of that
\* number in the list, and what the map held before is gone.  After one
\* that failed the map is what it was before the call.
FetchAllReplacesMap ==
    ret.op = "FetchAllBlockchainNetworks" =>
        IF ret.err = ""
        THEN /\ DOMAIN sdn.networks =
                  { NetworksGiven[i].NetworkNum : i \in 1..Len(NetworksGiven) }
             /\ \A k \in DOMAIN sdn.networks :
                  /\ sdn.networks[k].Protocol = LastNumbered(NetworksGiven, k).Protocol
                  /\ sdn.networks[k].TerminalTotalDifficulty =
                        LastNumbered(NetworksGiven, k).TerminalTotalDifficulty
        ELSE sdn.networks = ret.value.before

\* a network of the map is not in the list served from the cache file on a
\* 503, and is gone
AbsentNetworkRemovedWitness ==
    /\ ret.op = "FetchAllBlockchainNetworks"
    /\ ret.err = ""
    /\ ret.resp.status = 503
    /\ \E k \in DOMAIN ret.value.before : k \notin DOMAIN sdn.networks
    /\ sdn.networks # EmptyNetworks

\* ------------------------------------------------------------------
\* a Register that succeeded, in which the directory assigned a node ID
\* and the certificate it issued was persisted
RegisteredWithCert ==
    /\ ret.op = "Register"
    /\ ret.err = ""
    /\ ret.value.persisted
    /\ sdn.nodeID # ""

\* C24: NeedsRegistration is true exactly when the node ID is not set or
\* the certificate store needs a private certificate; after a Register
\* that succeeded, got a node ID and persisted the certificate, it is false
\* and stays false whatever Register calls follow.
RegistrationStaysDone ==
    /\ RegisteredWithCert => sdn.registered
    /\ sdn.registered => ~NeedsRegistration(sdn)

\* C25: over any sequence of Register calls the private certificate is
\* persisted at most once, and only by a call that found the store in need
\* of one; a request carries a CSR only in such a call; and Register panics
\* only when persisting fails.
CertPersistedOnceCsrOnlyWhenNeeded ==
    /\ sdn.saved <= 1
    /\ ret.op = "Register" =>
          /\ ret.value.persisted => ret.value.needed
          /\ (ret.value.requested /\ ret.value.csr # "") => ret.value.needed
          /\ ret.value.panicked => ret.value.needed

\* ------------------------------------------------------------------
\* the latency an entry must hold once its probe is over
ProbedLatency(outcome) ==
    IF outcome.ok /\ outcome.time > 0 THEN outcome.time ELSE PingTimeout

UncachedOps == {"GetQuotaUsage", "FetchCustomerAccountModel", "SendNodeEvent"}

\* C27: a 503 on an endpoint that is not cached is fatal for the call: the
\* quota call and the customer account call return an error and nothing
\* made of the body of the 503, the node event call gives up with the error.
UnavailableUncachedFails ==
    (ret.op \in UncachedOps /\ ~ret.resp.transportErr /\ ret.resp.status = 503) =>
        CASE ret.op = "GetQuotaUsage" -> ret.err # "" /\ ~ret.value.quota.set
          [] ret.op = "FetchCustomerAccountModel" -> ret.err # ""
          [] OTHER -> ret.value.logged # ""

\* C28: FetchCustomerAccountModel leaves the cache files as they are and
\* answers from the directory alone; when its request fails the account it
\* returns is the default-elite template, not an empty account.
CustomerAccountFallsBackToElite ==
    [][ret'.op = "FetchCustomerAccountModel" =>
          /\ disk' = disk
          /\ ret'.err = getAccountModelWithEndpoint(http(ret'.resp), ret'.value.defaults).err
          /\ http(ret'.resp).err # "" => ret'.value.account = ret'.value.defaults]_vars

\* ------------------------------------------------------------------
\* C29: for an answer with a status other than 200 the request returns no
\* data and an error, and httpWithCache leaves the cache file as it is;
\* the cache file is read only on a 503, and any other status comes back
\* as an error with no data, cache file or not.
StatusErrorNotServedFromCache ==
    [][((fetch' # fetch \/ disk' # disk)
          /\ ~fetch'.resp.transportErr /\ fetch'.resp.status # 200) =>
          /\ http(fetch'.resp).data = nil
          /\ http(fetch'.resp).err # ""
          /\ disk' = disk
          /\ IF fetch'.resp.status = 503
             THEN IF disk[fetch'.key].exists
                  THEN fetch'.err = "" /\ fetch'.data = disk[fetch'.key].bytes
                  ELSE fetch'.err # "" /\ fetch'.data = nil
             ELSE fetch'.err # "" /\ fetch'.err # ErrSDNUnavailable /\ fetch'.data = nil]_vars

\* a status 500 came back as an error although the cache file of the
\* operation is there
StatusErrorBesideCacheWitness ==
    /\ fetch.name # "none"
    /\ fetch.resp.status = 500
    /\ disk[fetch.key].exists
    /\ fetch.err # ""
    /\ fetch.data = nil

\* ------------------------------------------------------------------
\* the probed relays that are not connected automatic relays of the call
AvailableOf(f) ==
    SelectSeq(f.pingLatencies, LAMBDA c : c.IP \notin DOMAIN f.connectedAutoRelays)

\* the available candidates that are faster than the relay ip by the
\* threshold or more, in the order of the probes
ClearingOf(f, ip) ==
    SelectSeq(AvailableOf(f),
              LAMBDA c : f.connectedAutoRelays[ip].Latency >= c.Latency + latencyThreshold)

\* the connected relays and the available candidates of
\* TestFindRelaysToSwitch
TestConnected ==
    [ip \in {"1", "2", "3"} |->
        [RelayInfo(defaultRelayPort, TRUE, FALSE) EXCEPT
            !.Latency = CASE ip = "1" -> 15 [] ip = "2" -> 26 [] OTHER -> 8]]

TestAvailable ==
    <<[IP |-> "4", Port |-> defaultRelayPort, Latency |-> 3],
      [IP |-> "5", Port |-> defaultRelayPort, Latency |-> 10]>>

\* C30: for every connected automatic relay R, what FindFastestRelays
\* computes for R is exactly the available candidates C with
\* R.latency >= C.latency + latencyThreshold, in ascending order of
\* latency, and R gets no Switch when there is none (the fastest candidate
\* does not clear the threshold); every Switch sent carries that list, and
\* a relay gets at most one Switch in an invocation.  With the relays
\* 1:15, 2:26, 3:8 connected and 4:3, 5:10 available: 1 -> <<4>>,
\* 2 -> <<4, 5>>, nothing for 3.
SwitchSetExact ==
    /\ [](/\ DOMAIN findRelaysToSwitch(TestConnected, TestAvailable) = {"1", "2"}
          /\ findRelaysToSwitch(TestConnected, TestAvailable)["1"] = <<TestAvailable[1]>>
          /\ findRelaysToSwitch(TestConnected, TestAvailable)["2"] = TestAvailable)
    /\ [][/\ (ffr.pc # "send" /\ ffr'.pc = "send") =>
               \A ip \in DOMAIN ffr'.connectedAutoRelays :
                   IF ClearingOf(ffr', ip) = <<>>
                   THEN ip \notin DOMAIN ffr'.relaysToSwitch
                   ELSE /\ ip \in DOMAIN ffr'.relaysToSwitch
                        /\ ffr'.relaysToSwitch[ip] = ClearingOf(ffr', ip)
                        /\ IsSortedByLatency(ffr'.relaysToSwitch[ip])
          /\ (Sends /\ Sent.Type = Switch) =>
               /\ Sent.IP \in DOMAIN ffr.relaysToSwitch
               /\ Sent.RelaysToSwitch = ClearingOf(ffr, Sent.IP)
               /\ DOMAIN ffr'.relaysToSwitch = DOMAIN ffr.relaysToSwitch \ {Sent.IP}]_vars

\* a Switch with two candidates was sent, while a third available relay
\* was probed that is not among them
SwitchWithTwoCandidatesWitness ==
    \E i \in 1..Len(relayInstructions) :
        /\ relayInstructions[i].Type = Switch
        /\ Len(relayInstructions[i].RelaysToSwitch) = 2
        /\ relayInstructions[i].RelaysToSwitch[1].Latency
              <= relayInstructions[i].RelaysToSwitch[2].Latency

\* C31: no Switch lists as a target a relay that the map records, when the
\* Switch is sent, as connected (auto or static).
SwitchTargetsNotConnected ==
    [][(Sends /\ Sent.Type = Switch) =>
          \A i \in 1..Len(Sent.RelaysToSwitch) :
              Sent.RelaysToSwitch[i].IP \notin ConnectedIPs]_vars

\* the entry of ip is written by the step, with value info
Writes(ip, info) ==
    /\ ip \in DOMAIN ignoredRelays'
    /\ ignoredRelays'[ip] = info
    /\ \A k \in DOMAIN ignoredRelays' \ {ip} :
          k \in DOMAIN ignoredRelays /\ ignoredRelays'[k] = ignoredRelays[k]

\* the Connect the calling task of DirectRelayConnections sends next
StaticConnectOf(d) ==
    RelayInstruction(d.cur, d.remaining[d.cur], Connect, TRUE, <<>>)

\* the Connect a manageAutoRelays task sends next
AutoConnectOf(me) ==
    RelayInstruction(me.cur, me.pingLatencies[me.idx].Port, Connect, FALSE, <<>>)

\* C32: every Connect is preceded, in the task that sends it, by the write
\* of ignored[IP] with IsConnected=true and the port and the IsStatic flag
\* of the instruction (static for the relays of the specification, not
\* static for auto relays): a task comes to a send only by that write, and
\* sends the Connect of what it wrote; no Connect is sent for an IP without
\* an entry in the map.
ConnectFollowsWrite ==
    /\ [][(drc'.pc = "send" /\ drc' # drc) =>
             Writes(drc'.cur, RelayInfo(StaticConnectOf(drc').Port, TRUE, TRUE))]_vars
    /\ [][\A p \in Procs :
             (procs'[p].pc = "send" /\ procs'[p] # procs[p]) =>
                 /\ procs'[p].cur \notin DOMAIN ignoredRelays
                 /\ Writes(procs'[p].cur,
                           RelayInfo(AutoConnectOf(procs'[p]).Port, TRUE, FALSE))]_vars
    /\ [][(Sends /\ Sent.Type = Connect) =>
             /\ Sent.IP \in DOMAIN ignoredRelays
             /\ \/ drc.pc = "send" /\ drc' # drc /\ Sent = StaticConnectOf(drc)
                \/ \E p \in Procs :
                      /\ procs[p].pc = "send"
                      /\ procs'[p] # procs[p]
                      /\ Sent = AutoConnectOf(procs[p])]_vars

\* a static and an auto Connect were sent, each for an entry of the map
StaticAndAutoConnectedWitness ==
    /\ \E i \in 1..Len(relayInstructions) :
         /\ relayInstructions[i].Type = Connect
         /\ relayInstructions[i].IsStatic
         /\ relayInstructions[i].IP \in DOMAIN ignoredRelays
    /\ \E i \in 1..Len(relayInstructions) :
         /\ relayInstructions[i].Type = Connect
         /\ ~relayInstructions[i].IsStatic
         /\ relayInstructions[i].IP \in DOMAIN ignoredRelays
         /\ ~ignoredRelays[relayInstructions[i].IP].IsStatic

\* the step is the first statement of a FindNewRelay that task p runs
StartsRecovery(p) == procs[p].kind # "fnr" /\ procs'[p].kind = "fnr"

PassedOverBy(p) ==
    IF procs[p].pc = "scan" /\ procs'[p] # procs[p]
    THEN procs[p].idx ..
            (IF procs'[p].pc = "send" THEN procs'[p].idx - 1
                                      ELSE Len(procs[p].pingLatencies))
    ELSE {}

\* C34: no entry leaves the map unless its relay is disconnected, and a
\* relay that FindNewRelay marked IsConnected=false is selected again by a
\* later manageAutoRelays: a task passes over a candidate with an IP only
\* when the map records the relay as connected, or when it is the relay
\* the task itself replaces.
DisconnectedRelaySelectableAgain ==
    /\ [][\A ip \in DOMAIN ignoredRelays \ DOMAIN ignoredRelays' :
             ~ignoredRelays[ip].IsConnected]_vars
    /\ [][\A p \in Procs : \A i \in PassedOverBy(p) :
             LET r == GetIP(procs[p].pingLatencies[i].IP) IN
             (~r.err /\ r.ip # procs[p].oldRelayIP) =>
                 ignoredRelays[r.ip].IsConnected]_vars

\* the Switch instructions sent for relay ip
SwitchesFor(ip) ==
    { i \in 1..Len(relayInstructions) :
        relayInstructions[i].Type = Switch /\ relayInstructions[i].IP = ip }

\* C35: while nothing changes the map, every FindFastestRelays call with
\* the same candidates and latencies sends the Switch of a relay again:
\* when the calls of a run are over, a relay that got a Switch got the same
\* Switch from each of them.
SwitchRepeatedEveryCall ==
    ffr.pc = "idle" =>
        \A ip \in IPs :
            /\ Cardinality(SwitchesFor(ip)) \in {0, calls}
            /\ \A i, j \in SwitchesFor(ip) : relayInstructions[i] = relayInstructions[j]

\* two calls are over and a relay got a Switch from both
SwitchSentTwiceWitness ==
    /\ ffr.pc = "idle"
    /\ calls = 2
    /\ \E ip \in IPs : Cardinality(SwitchesFor(ip)) = 2

\* the Connects sent for ip by manageAutoRelays tasks
AutoConnectsFor(ip) ==
    { i \in 1..Len(relayInstructions) :
        /\ relayInstructions[i].Type = Connect
        /\ ~relayInstructions[i].IsStatic
        /\ relayInstructions[i].IP = ip }

\* the tasks whose LoadOrStore inserted ip and that have its Connect to send
InsertedBy(ip) == { p \in Procs : procs[p].pc = "send" /\ procs[p].cur = ip }

\* C36: with several manageAutoRelays tasks on one map (the background
\* task of DirectRelayConnections and FindNewRelay recoveries), no IP gets a
\* Connect from two of them: one task at most inserts the entry of an IP,
\* and that task alone sends its Connect.
OneTaskConnectsEachIP ==
    \A ip \in IPs :
        Cardinality(AutoConnectsFor(ip)) + Cardinality(InsertedBy(ip)) <= 1

\* the background task and a recovery each inserted a relay, and the
\* recovery passed over the relay the background task inserted
TwoTasksOverlapWitness ==
    \E p, q \in Procs :
        /\ procs[p].kind = "bg"
        /\ procs[q].kind = "fnr"
        /\ procs[p].pc = "send"
        /\ procs[q].pc = "send"
        /\ \E i \in 1..(procs[q].idx - 1) :
             GetIP(procs[q].pingLatencies[i].IP).ip = procs[p].cur

IsMarkedDisconnected(m, ip) == ip \in DOMAIN m /\ ~m[ip].IsConnected

\* C37: with FindFastestRelays and FindNewRelay(R) running concurrently, a
\* Switch for R is sent only if the Range of the call saw R connected and
\* not static.  The Range takes a key into its snapshot only as the map
\* shows it at that moment, and a relay that FindNewRelay marked
\* IsConnected=false is never again recorded as a connected auto relay: a
\* call whose Range starts after the mark sends no Switch for R.  (A call
\* that ranged before the mark still sends it: the witness.)
SwitchOnlyIfRangedConnected ==
    /\ [][(Sends /\ Sent.Type = Switch) =>
             /\ Sent.IP \in DOMAIN ffr.connectedAutoRelays
             /\ ffr.connectedAutoRelays[Sent.IP].IsConnected
             /\ ~ffr.connectedAutoRelays[Sent.IP].IsStatic]_vars
    /\ [][ffr.pc = "range" =>
             \A ip \in IPs :
                 LET before == IF ip \in DOMAIN ffr.connectedAutoRelays
                               THEN {ffr.connectedAutoRelays[ip]} ELSE {}
                     after == IF ip \in DOMAIN ffr'.connectedAutoRelays
                              THEN {ffr'.connectedAutoRelays[ip].IsConnected} ELSE {}
                 IN (before = {} /\ after # {}) =>
                        /\ ~IsMarkedDisconnected(ignoredRelays, ip)
                        /\ after = {TRUE}]_vars
    /\ [][\A ip \in IPs :
             IsMarkedDisconnected(ignoredRelays, ip) =>
                 /\ ip \in DOMAIN ignoredRelays'
                 /\ (ignoredRelays'[ip].IsConnected => ignoredRelays'[ip].IsStatic)]_vars

\* the call ranged while R was connected, FindNewRelay(R) then marked R
\* IsConnected=false, and the Switch for R is the next thing the call sends
SwitchAfterDisconnectWitness ==
    /\ ffr.pc = "send"
    /\ \E p \in Procs :
         /\ procs[p].kind = "fnr"
         /\ procs[p].oldRelayIP \in DOMAIN ffr.relaysToSwitch
         /\ IsMarkedDisconnected(ignoredRelays, procs[p].oldRelayIP)

\* C38: FindFastestRelays only reads the map: no step of the call changes
\* an entry, adds one or removes one, and the latencies it measures for
\* the connected relays are in its snapshot only.
FindFastestRelaysOnlyReads ==
    [][/\ ignoredRelays' = ignoredRelays
       /\ \A ip \in DOMAIN ffr'.connectedAutoRelays :
             /\ ip \in DOMAIN ignoredRelays'
             /\ ignoredRelays'[ip].Latency = ignoredRelays[ip].Latency]_vars

\* the call sent a Switch and its snapshot holds a measured latency for a
\* relay whose entry in the map has none
LatencyInSnapshotOnlyWitness ==
    /\ ffr.pc = "send"
    /\ relayInstructions # <<>>
    /\ \E ip \in DOMAIN ffr.connectedAutoRelays :
         /\ ffr.connectedAutoRelays[ip].Latency > 0
         /\ ignoredRelays[ip].Latency = 0

\* the IPs of the static Connects sent
StaticConnected ==
    { relayInstructions[i].IP : i \in
        { j \in 1..Len(relayInstructions) :
            relayInstructions[j].Type = Connect /\ relayInstructions[j].IsStatic } }

\* C39: in one DirectRelayConnections call the calling task sends every
\* static Connect before the call returns and before any auto Connect of
\* the call: a call that has returned after a successful parse has sent
\* the Connect of every static relay, no static Connect follows an auto
\* Connect, the static Connects are steps of the call, and the auto
\* Connects are steps of the background task, taken after the return.
StaticConnectsBeforeReturn ==
    /\ [](/\ (DRCReturned /\ parsed.err = "") => StaticConnected = DOMAIN parsed.relays
          /\ \A i, j \in 1..Len(relayInstructions) :
                (i < j /\ ~relayInstructions[i].IsStatic) => ~relayInstructions[j].IsStatic)
    /\ [][(Sends /\ Sent.Type = Connect) =>
             IF Sent.IsStatic
             THEN drc.pc = "send" /\ drc' # drc /\ procs' = procs
             ELSE DRCReturned /\ drc' = drc /\ procs' # procs]_vars

\* the call returned nil after its static Connect, and the background task
\* sent an auto Connect after it and is over
AutoAfterReturnWitness ==
    /\ DRCReturned
    /\ drc.result = "nil"
    /\ \A p \in Procs : procs[p].kind = "idle"
    /\ Len(relayInstructions) = 2
    /\ relayInstructions[1].IsStatic
    /\ ~relayInstructions[2].IsStatic

\* the IPs of the probe results of the run
ProbedIPs == { ping.result[i].IP : i \in 1..Len(ping.result) }

\* C40: a connected auto relay that is not among the probe results of a
\* FindFastestRelays call is compared with the latency of its entry in the
\* map (0 for the entries manageAutoRelays creates), and with latency 0 it
\* never gets a Switch, whatever the latencies of the candidates.
UnprobedRelayNeverSwitched ==
    /\ \A ip \in DOMAIN ignoredRelays : ignoredRelays[ip].Latency = 0
    /\ \A i \in 1..Len(relayInstructions) :
          relayInstructions[i].Type = Switch => relayInstructions[i].IP \in ProbedIPs
    /\ \A ip \in DOMAIN ffr.relaysToSwitch : ip \in ProbedIPs

\* a call is over without any Switch although a connected auto relay had
\* no probe result and a relay that is not connected had one
UnprobedRelayKeptWitness ==
    /\ ffr.pc = "idle"
    /\ calls = 1
    /\ relayInstructions = <<>>
    /\ \E ip \in DOMAIN ignoredRelays \ ProbedIPs :
         ignoredRelays[ip].IsConnected /\ ~ignoredRelays[ip].IsStatic
    /\ \E ip \in ProbedIPs : ip \notin DOMAIN ignoredRelays

====
